---- MODULE Spec2Model ----
(***************************************************************************)
(* Real-Estate-Bot: the per-user conversation state machine of bot.py with *)
(* the field validation and cleaning of gpt_handler.py and the listing     *)
(* store of database.py.                                                   *)
(*                                                                         *)
(* user_data is context.user_data of the one conversing user, store is the *)
(* properties table in insertion order, last tells what the last handler    *)
(* did.  python-telegram-bot runs the handlers of one Application one       *)
(* update at a time, so a handler is one step.                             *)
(*                                                                         *)
(* A Python str is a sequence of one-character strings, so that lower(),   *)
(* strip(), split() and the substring test `in` are computed on the        *)
(* characters.  A Python value is a record [kind, val]; a dict is a        *)
(* function from keys (TLA+ strings) to values.                            *)
(*                                                                         *)
(* What the environment decides is an input of the handler: the text, the  *)
(* JSON object the extraction model answers (or its failure), and whether  *)
(* a call of the store raises.  Sending a Telegram message does not fail.  *)
(***************************************************************************)
EXTENDS Integers, Sequences, FiniteSets, TLC

VARIABLES user_data, store, last

vars == <<user_data, store, last>>

----------------------------------------------------------------------------
(* Python str operations                                                   *)

UpperChars == <<"A","B","C","D","E","F","G","H","I","J","K","L","M","N","O","P","Q","R","S","T","U","V","W","X","Y","Z">>
LowerChars == <<"a","b","c","d","e","f","g","h","i","j","k","l","m","n","o","p","q","r","s","t","u","v","w","x","y","z">>
Whitespace == {" ", "\t", "\n"}
DigitChars == <<"0","1","2","3","4","5","6","7","8","9">>

SeqToSet(s) == {s[i] : i \in 1..Len(s)}

IndexIn(seq, c) == IF \E i \in 1..Len(seq) : seq[i] = c
                   THEN CHOOSE i \in 1..Len(seq) : seq[i] = c
                   ELSE 0

\* str.lower()
Lower(s) == [i \in 1..Len(s) |->
               IF IndexIn(UpperChars, s[i]) > 0
               THEN LowerChars[IndexIn(UpperChars, s[i])]
               ELSE s[i]]

\* str.strip()
RECURSIVE LStrip(_)
LStrip(s) == IF s # <<>> /\ Head(s) \in Whitespace THEN LStrip(Tail(s)) ELSE s
RECURSIVE RStrip(_)
RStrip(s) == IF s # <<>> /\ s[Len(s)] \in Whitespace
             THEN RStrip(SubSeq(s, 1, Len(s) - 1)) ELSE s
Strip(s) == RStrip(LStrip(s))

\* ' '.join(s.split()): runs of whitespace collapse to one space, none at the ends
RECURSIVE CollapseWs(_)
CollapseWs(s) ==
    IF s = <<>> THEN <<>>
    ELSE IF Head(s) \in Whitespace
         THEN IF LStrip(s) = <<>> THEN <<>> ELSE <<" ">> \o CollapseWs(LStrip(s))
         ELSE <<Head(s)>> \o CollapseWs(Tail(s))
JoinSplit(s) == CollapseWs(LStrip(s))

\* sub in s
Contains(s, sub) == \E i \in 0..(Len(s) - Len(sub)) : SubSeq(s, i + 1, i + Len(sub)) = sub

\* any(word in s for word in words)
AnyIn(words, s) == \E w \in words : Contains(s, w)

\* str(n) of a non-negative int
RECURSIVE DigitsOf(_)
DigitsOf(n) == IF n < 10 THEN <<DigitChars[n + 1]>>
               ELSE DigitsOf(n \div 10) \o <<DigitChars[(n % 10) + 1]>>

IsDigits(s) == s # <<>> /\ \A i \in 1..Len(s) : IndexIn(DigitChars, s[i]) > 0
RECURSIVE DigitsValue(_)
DigitsValue(s) == IF s = <<>> THEN 0
                  ELSE 10 * DigitsValue(SubSeq(s, 1, Len(s) - 1))
                       + (IndexIn(DigitChars, s[Len(s)]) - 1)

----------------------------------------------------------------------------
(* Python values and dicts                                                 *)

PyNone == [kind |-> "none", val |-> 0]
PyStr(s) == [kind |-> "str", val |-> s]
PyNum(n) == [kind |-> "num", val |-> n]
PyBool(b) == [kind |-> "bool", val |-> b]

\* bool(v): the truth value Python's `not` and `if` use
Truthy(v) == CASE v.kind = "none" -> FALSE
               [] v.kind = "str"  -> v.val # <<>>
               [] v.kind = "num"  -> v.val # 0
               [] v.kind = "bool" -> v.val

EmptyDict == <<>>
\* d.get(k) and d.get(k, default)
DictGet(d, k) == IF k \in DOMAIN d THEN d[k] ELSE PyNone
DictGetDefault(d, k, default) == IF k \in DOMAIN d THEN d[k] ELSE default
\* d[k] = v
DictSet(d, k, v) == [x \in DOMAIN d \cup {k} |-> IF x = k THEN v ELSE d[x]]
\* d.pop(k, None)
DictPop(d, k) == [x \in DOMAIN d \ {k} |-> d[x]]
\* d.update(e): e's items are written over d's
DictUpdate(d, e) == e @@ d

\* float(value) and int(value): <<TRUE, number>> or <<FALSE, 0>> for ValueError/TypeError
ToNumber(v) == CASE v.kind = "num"  -> <<TRUE, v.val>>
                 [] v.kind = "bool" -> <<TRUE, IF v.val THEN 1 ELSE 0>>
                 [] v.kind = "str"  -> IF IsDigits(Strip(v.val))
                                       THEN <<TRUE, DigitsValue(Strip(v.val))>>
                                       ELSE <<FALSE, 0>>
                 [] OTHER -> <<FALSE, 0>>

\* str(value)
ToStr(v) == CASE v.kind = "str"  -> v.val
              [] v.kind = "num"  -> DigitsOf(v.val)
              [] v.kind = "bool" -> IF v.val THEN <<"T","r","u","e">> ELSE <<"F","a","l","s","e">>
              [] OTHER -> <<"N","o","n","e">>

----------------------------------------------------------------------------
(* gpt_handler.py                                                          *)

NumberKeys == {"area", "price"}
IntKeys == {"rooms", "floor", "year_built"}
BoolKeys == {"parking", "elevator", "storage"}
TrueWords == {<<"t","r","u","e">>, <<"y","e","s">>, <<"1">>, <<"h","a","s">>, <<"a","v","a","i","l","a","b","l","e">>}

\* the keys _clean_property_data skips: None, 'null', '', an unparsable number,
\* a bool field that is neither bool nor str
CleanDrops(key, value) ==
    \/ value = PyNone
    \/ value = PyStr(<<"n","u","l","l">>)
    \/ value = PyStr(<<>>)
    \/ key \in NumberKeys \cup IntKeys /\ ~ToNumber(value)[1]
    \/ key \in BoolKeys /\ value.kind \notin {"bool", "str"}

CleanValue(key, value) ==
    IF key \in NumberKeys \cup IntKeys THEN PyNum(ToNumber(value)[2])
    ELSE IF key \in BoolKeys
         THEN IF value.kind = "bool" THEN value
              ELSE PyBool(Lower(value.val) \in TrueWords)
         ELSE PyStr(Strip(ToStr(value)))

clean_property_data(data) ==
    LET kept == {k \in DOMAIN data : ~CleanDrops(k, data[k])}
    IN  [k \in kept |-> CleanValue(k, data[k])]

required_fields == <<"title", "property_type", "city", "area", "price">>

\* a validation that only asks for a non-null value
IsNull(property_data, field) == DictGet(property_data, field) = PyNone

IsMissing(property_data, field) == ~Truthy(DictGet(property_data, field))

\* returns (is_valid, missing_fields, property_data)
validate_property_data(property_data) ==
    LET missing_fields == SelectSeq(required_fields,
                                    LAMBDA field : IsMissing(property_data, field))
    IN  <<Len(missing_fields) = 0, missing_fields, property_data>>

----------------------------------------------------------------------------
(* bot.py: pure helpers                                                    *)

\* merges where the accumulated value wins, and where only the new data is kept
MergeKeepsAccumulated(partial_data, new_data) == DictUpdate(new_data, partial_data)
MergeForgets(partial_data, new_data) == new_data

\* {**partial_data, **new_data}
Merge(partial_data, new_data) == DictUpdate(partial_data, new_data)

register_keywords == {<<"r","e","g","i","s","t","e","r">>, <<"a","d","d">>, <<"c","r","e","a","t","e">>, <<"n","e","w"," ","p","r","o","p","e","r","t","y">>,
                      <<"l","i","s","t"," ","p","r","o","p","e","r","t","y">>, <<"p","o","s","t">>}
search_keywords == {<<"s","e","a","r","c","h">>, <<"f","i","n","d">>, <<"l","o","o","k"," ","f","o","r">>, <<"l","o","o","k","i","n","g"," ","f","o","r">>,
                    <<"w","a","n","t"," ","t","o"," ","f","i","n","d">>}
filter_keywords == {<<"f","i","l","t","e","r">>, <<"k","e","y","w","o","r","d">>, <<"c","o","n","t","a","i","n","s">>}
edit_keywords == {<<"e","d","i","t">>, <<"u","p","d","a","t","e">>, <<"m","o","d","i","f","y">>, <<"c","h","a","n","g","e">>}
list_keywords == {<<"l","i","s","t">>, <<"s","h","o","w"," ","m","y">>, <<"m","y"," ","p","r","o","p","e","r","t","i","e","s">>, <<"v","i","e","w"," ","m","y">>}

NoGoal == "none"

\* a router that tests the search keywords before the register keywords
parse_goal_search_first(text) ==
    LET text_lower == Lower(text)
    IN  IF AnyIn(search_keywords, text_lower) THEN "search"
        ELSE IF AnyIn(register_keywords, text_lower) THEN "register"
        ELSE IF AnyIn(filter_keywords, text_lower) THEN "filter"
        ELSE IF AnyIn(edit_keywords, text_lower) THEN "edit"
        ELSE IF AnyIn(list_keywords, text_lower) THEN "list"
        ELSE NoGoal

parse_goal_from_text(text) ==
    LET text_lower == Lower(text)
    IN  IF AnyIn(register_keywords, text_lower) THEN "register"
        ELSE IF AnyIn(search_keywords, text_lower) THEN "search"
        ELSE IF AnyIn(filter_keywords, text_lower) THEN "filter"
        ELSE IF AnyIn(edit_keywords, text_lower) THEN "edit"
        ELSE IF AnyIn(list_keywords, text_lower) THEN "list"
        ELSE NoGoal

affirmative_words == {<<"c","o","n","f","i","r","m">>, <<"y","e","s">>, <<"s","u","b","m","i","t">>, <<"o","k">>, <<"c","o","r","r","e","c","t">>, <<"s","a","v","e">>}
negative_words == {<<"c","a","n","c","e","l">>, <<"n","o">>, <<"a","b","o","r","t">>, <<"s","t","o","p">>}

IsAffirmative(user_input) == AnyIn(affirmative_words, Strip(Lower(user_input)))
IsNegative(user_input) == AnyIn(negative_words, Strip(Lower(user_input)))

----------------------------------------------------------------------------
(* bot.py: _detect_field_deletions                                         *)

deletion_keywords == <<<<"d","e","l","e","t","e">>, <<"r","e","m","o","v","e">>, <<"c","l","e","a","r">>, <<"e","r","a","s","e">>, <<"d","r","o","p">>>>
reset_keywords == <<<<"s","e","t">>, <<"m","a","k","e">>>>
negative_keywords == <<<<"n","o">>, <<"w","i","t","h","o","u","t">>>>

DeletionFields == <<"description", "address", "neighborhood", "title",
                    "parking", "elevator", "storage">>
field_synonyms(field) ==
    CASE field = "description"  -> <<<<"d","e","s","c","r","i","p","t","i","o","n">>, <<"d","e","t","a","i","l","s">>, <<"s","u","m","m","a","r","y">>,
                                     <<"n","o","t","e","s">>, <<"n","o","t","e">>>>
      [] field = "address"      -> <<<<"a","d","d","r","e","s","s">>, <<"l","o","c","a","t","i","o","n"," ","d","e","t","a","i","l","s">>>>
      [] field = "neighborhood" -> <<<<"n","e","i","g","h","b","o","r","h","o","o","d">>, <<"d","i","s","t","r","i","c","t">>, <<"a","r","e","a"," ","n","a","m","e">>>>
      [] field = "title"        -> <<<<"t","i","t","l","e">>, <<"h","e","a","d","l","i","n","e">>>>
      [] field = "parking"      -> <<<<"p","a","r","k","i","n","g">>, <<"g","a","r","a","g","e">>, <<"c","a","r"," ","p","a","r","k">>>>
      [] field = "elevator"     -> <<<<"e","l","e","v","a","t","o","r">>, <<"l","i","f","t">>>>
      [] field = "storage"      -> <<<<"s","t","o","r","a","g","e">>, <<"s","t","o","r","a","g","e"," ","r","o","o","m">>, <<"l","o","c","k","e","r">>,
                                     <<"p","a","n","t","r","y">>>>
boolean_fields == {"parking", "elevator", "storage"}

Sp == <<" ">>

DeletionPatterns(keyword, synonym) ==
    { keyword \o Sp \o synonym,
      keyword \o <<" ","t","h","e"," ">> \o synonym,
      keyword \o <<" ","t","h","i","s"," ">> \o synonym,
      keyword \o <<" ","t","h","a","t"," ">> \o synonym,
      keyword \o <<" ","m","y"," ">> \o synonym,
      keyword \o <<" ","t","h","e"," ">> \o synonym \o <<" ","f","i","e","l","d">> }

ResetPatterns(keyword, synonym) ==
    { keyword \o Sp \o synonym \o <<" ","t","o"," ","n","o","n","e">>,
      keyword \o Sp \o synonym \o <<" ","t","o"," ","n","u","l","l">>,
      keyword \o Sp \o synonym \o <<" ","t","o"," ","e","m","p","t","y">>,
      keyword \o Sp \o synonym \o <<" ","t","o"," ","b","l","a","n","k">>,
      keyword \o <<" ","t","h","e"," ">> \o synonym \o <<" ","t","o"," ","n","o","n","e">>,
      keyword \o <<" ","t","h","e"," ">> \o synonym \o <<" ","t","o"," ","n","u","l","l">> }

\* negation phrases that test the first negation keyword only
NegativePatternsNoOnly(synonym) ==
    { negative_keywords[1] \o Sp \o synonym,
      <<"t","h","e","r","e"," ","i","s"," ">> \o negative_keywords[1] \o Sp \o synonym,
      synonym \o <<" ","i","s"," ","n","o","t"," ","n","e","e","d","e","d">>,
      synonym \o <<" ","n","o","t"," ","n","e","e","d","e","d">> }

NegativePatterns(synonym) ==
    { negative_keywords[1] \o Sp \o synonym,
      negative_keywords[2] \o Sp \o synonym,
      <<"t","h","e","r","e"," ","i","s"," ">> \o negative_keywords[1] \o Sp \o synonym,
      synonym \o <<" ","i","s"," ","n","o","t"," ","n","e","e","d","e","d">>,
      synonym \o <<" ","n","o","t"," ","n","e","e","d","e","d">> }

DeletionMatch(synonym, normalized) ==
    \E i \in 1..Len(deletion_keywords) :
        AnyIn(DeletionPatterns(deletion_keywords[i], synonym), normalized)

ResetMatch(synonym, normalized) ==
    \E i \in 1..Len(reset_keywords) :
        AnyIn(ResetPatterns(reset_keywords[i], synonym), normalized)

NegativeMatch(synonym, normalized) == AnyIn(NegativePatterns(synonym), normalized)

\* the loop over one field's synonyms; in_removals is `field in removals`
RECURSIVE ScanSynonyms(_, _, _, _)
ScanSynonyms(field, synonyms, normalized, in_removals) ==
    IF synonyms = <<>> THEN in_removals
    ELSE LET synonym == Head(synonyms)
             after_delete == in_removals \/ DeletionMatch(synonym, normalized)
             after_reset == after_delete \/ ResetMatch(synonym, normalized)
             after_negative == \/ after_reset
                               \/ field \in boolean_fields
                                  /\ NegativeMatch(synonym, normalized)
         IN  ScanSynonyms(field, Tail(synonyms), normalized, after_negative)

\* a detector that clears every field to False
ClearedAsFalse(field) == PyBool(FALSE)

\* a detector that clears every field to None
ClearedAsNone(field) == PyNone

ClearedValue(field) == IF field \in boolean_fields THEN PyBool(FALSE) ELSE PyNone

detect_field_deletions(text) ==
    IF text = <<>> THEN EmptyDict
    ELSE LET normalized == JoinSplit(Lower(text))
             flagged == {DeletionFields[i] : i \in 1..Len(DeletionFields)}
             removed == {f \in flagged :
                            ScanSynonyms(f, field_synonyms(f), normalized, FALSE)}
         IN  [f \in removed |-> ClearedValue(f)]

show_all_keywords == {<<"s","h","o","w"," ","a","l","l"," ","p","r","o","p","e","r","t","i","e","s">>, <<"s","h","o","w"," ","a","l","l">>, <<"l","i","s","t"," ","a","l","l"," ","p","r","o","p","e","r","t","i","e","s">>,
                      <<"s","e","e"," ","a","l","l"," ","p","r","o","p","e","r","t","i","e","s">>, <<"d","i","s","p","l","a","y"," ","a","l","l"," ","p","r","o","p","e","r","t","i","e","s">>}

IsShowAll(user_input) == AnyIn(show_all_keywords, Lower(Strip(user_input)))

----------------------------------------------------------------------------
(* database.py: a listing is a dict over Columns; the table is the sequence *)
(* of its rows in creation order (created_at ascending)                     *)

TextColumns == {"title", "property_type", "city", "neighborhood", "address", "description"}
Columns == {"id", "user_id", "area", "rooms", "floor", "year_built", "price",
            "parking", "elevator", "storage"} \cup TextColumns
NotNullColumns == {"id", "user_id", "title", "property_type", "city", "area", "price"}

Ids(rows) == {rows[i]["id"].val : i \in 1..Len(rows)}

\* the rowid SQLite gives an INTEGER PRIMARY KEY row: one more than the largest in use
NextIdCounting(rows) == Len(rows) + 1
NextId(rows) == IF rows = <<>> THEN 1
                ELSE (CHOOSE m \in Ids(rows) : \A j \in Ids(rows) : j <= m) + 1

NewProperty(id, user_id, property_data) ==
    [c \in Columns |->
        CASE c = "id" -> PyNum(id)
          [] c = "user_id" -> PyNum(user_id)
          [] c = "title" -> DictGetDefault(property_data, c, PyStr(<<"U","n","t","i","t","l","e","d"," ","P","r","o","p","e","r","t","y">>))
          [] c = "property_type" -> DictGetDefault(property_data, c, PyStr(<<"A","p","a","r","t","m","e","n","t">>))
          [] c = "city" -> DictGetDefault(property_data, c, PyStr(<<>>))
          [] c \in {"area", "price"} ->
                PyNum(ToNumber(DictGetDefault(property_data, c, PyNum(0)))[2])
          [] c \in {"parking", "elevator", "storage"} ->
                DictGetDefault(property_data, c, PyBool(FALSE))
          [] OTHER -> DictGet(property_data, c)]

\* add_property: the table after the insert (the new row is the most recent)
add_property(rows, user_id, property_data) ==
    Append(rows, NewProperty(NextId(rows), user_id, property_data))

\* the rows a query returns, most recent first: order_by(created_at.desc())
RECURSIVE Reverse(_)
Reverse(s) == IF s = <<>> THEN <<>> ELSE Append(Reverse(Tail(s)), Head(s))
Take(s, n) == SubSeq(s, 1, IF Len(s) < n THEN Len(s) ELSE n)
QueryLimit == 50
QueryOldestFirst(rows, matching) ==
    Take(SelectSeq(rows, LAMBDA p : p \in matching), QueryLimit)
Query(rows, matching) ==
    Take(Reverse(SelectSeq(rows, LAMBDA p : p \in matching)), QueryLimit)

\* get_property: the row or PyNone
get_property(rows, property_id) ==
    IF \E i \in 1..Len(rows) : rows[i]["id"] = PyNum(property_id)
    THEN rows[CHOOSE i \in 1..Len(rows) : rows[i]["id"] = PyNum(property_id)]
    ELSE PyNone

Exists(rows, property_id) == property_id \in Ids(rows)

get_user_properties(rows, user_id) ==
    Query(rows, {p \in SeqToSet(rows) : p["user_id"] = PyNum(user_id)})

\* SQLite's LIKE: % matches any text, _ any one character
RECURSIVE LikeMatch(_, _)
LikeMatch(pattern, s) ==
    IF pattern = <<>> THEN s = <<>>
    ELSE IF Head(pattern) = "%"
    THEN LikeMatch(Tail(pattern), s) \/ (s # <<>> /\ LikeMatch(pattern, Tail(s)))
    ELSE /\ s # <<>>
         /\ Head(pattern) = "_" \/ Head(pattern) = Head(s)
         /\ LikeMatch(Tail(pattern), Tail(s))

\* column LIKE '%' || value || '%' (SQLite: case-insensitive on ASCII, NULL never
\* matches; contains() does not escape the wildcards of value)
SqlContains(column_value, value) ==
    /\ column_value.kind = "str"
    /\ LikeMatch(<<"%">> \o Lower(ToStr(value)) \o <<"%">>, Lower(column_value.val))

SqlNumEq(column_value, value) ==
    /\ column_value.kind # "none"
    /\ ToNumber(value)[1]
    /\ ToNumber(column_value)[2] = ToNumber(value)[2]

MatchesFilters(p, filters) ==
    /\ Truthy(DictGet(filters, "user_id")) => SqlNumEq(p["user_id"], filters["user_id"])
    /\ Truthy(DictGet(filters, "property_type")) =>
            SqlContains(p["property_type"], filters["property_type"])
    /\ Truthy(DictGet(filters, "city")) => SqlContains(p["city"], filters["city"])
    /\ Truthy(DictGet(filters, "neighborhood")) =>
            SqlContains(p["neighborhood"], filters["neighborhood"])
    /\ Truthy(DictGet(filters, "min_area")) => p["area"].val >= filters["min_area"].val
    /\ Truthy(DictGet(filters, "max_area")) => p["area"].val <= filters["max_area"].val
    /\ Truthy(DictGet(filters, "min_price")) => p["price"].val >= filters["min_price"].val
    /\ Truthy(DictGet(filters, "max_price")) => p["price"].val <= filters["max_price"].val
    /\ Truthy(DictGet(filters, "rooms")) => SqlNumEq(p["rooms"], filters["rooms"])
    /\ DictGet(filters, "parking") # PyNone =>
            p["parking"].kind = "bool" /\ p["parking"].val = Truthy(filters["parking"])
    /\ DictGet(filters, "elevator") # PyNone =>
            p["elevator"].kind = "bool" /\ p["elevator"].val = Truthy(filters["elevator"])

search_properties(rows, filters) == 
    Query(rows, {p \in SeqToSet(rows) : MatchesFilters(p, filters)})

filter_by_keywords(rows, keywords) ==
    Query(rows, {p \in SeqToSet(rows) :
                    \E c \in TextColumns : SqlContains(p[c], PyStr(keywords))})

\* what SQLite stores in a column: an INTEGER or FLOAT column turns a text that is a
\* number into that number
NumericColumns == {"id", "user_id", "area", "rooms", "floor", "year_built", "price"}
Stored(column, value) ==
    IF column \in NumericColumns /\ value.kind = "str" /\ ToNumber(value)[1]
    THEN PyNum(ToNumber(value)[2])
    ELSE value

\* the setattr loop of update_property on one row
UpdatedRowReplaced(p, updates) ==
    [c \in Columns |-> IF c \in DOMAIN updates THEN updates[c]
                       ELSE IF c \in {"id", "user_id"} THEN p[c] ELSE PyNone]
UpdatedRow(p, updates) ==
    [c \in Columns |-> IF c \in DOMAIN updates THEN Stored(c, updates[c]) ELSE p[c]]

\* update_property on a table that holds the row
update_property(rows, property_id, updates) ==
    [i \in 1..Len(rows) |->
        IF rows[i]["id"] = PyNum(property_id) THEN UpdatedRow(rows[i], updates)
        ELSE rows[i]]

\* the commit fails on NULL in a nullable=False column (IntegrityError)
UpdateViolatesNotNull(updates) ==
    \E c \in NotNullColumns \cap DOMAIN updates : updates[c] = PyNone

\* delete_property: ownership is tested only 'if user_id:' (0 stands for a falsy
\* user_id); the rows that stay
CanDeleteAnyOwner(rows, property_id, user_id) ==
    \E i \in 1..Len(rows) : rows[i]["id"] = PyNum(property_id)
CanDelete(rows, property_id, user_id) ==
    \E i \in 1..Len(rows) : /\ rows[i]["id"] = PyNum(property_id)
                            /\ user_id # 0 => rows[i]["user_id"] = PyNum(user_id)
delete_property(rows, property_id, user_id) ==
    SelectSeq(rows, LAMBDA p : ~(/\ p["id"] = PyNum(property_id)
                                 /\ user_id # 0 => p["user_id"] = PyNum(user_id)))

\* gpt_handler.py _clean_filters
FilterNumberKeys == {"min_area", "max_area", "min_price", "max_price"}
RequiredWords == {<<"t","r","u","e">>, <<"y","e","s">>, <<"1">>, <<"r","e","q","u","i","r","e","d">>, <<"n","e","e","d","e","d">>}
FilterDrops(key, value) ==
    \/ value = PyNone
    \/ value = PyStr(<<"n","u","l","l">>)
    \/ value = PyStr(<<>>)
    \/ key \in FilterNumberKeys \cup {"rooms"} /\ ~ToNumber(value)[1]
    \/ key \in {"parking", "elevator"} /\ value.kind \notin {"bool", "str"}
FilterValue(key, value) ==
    IF key \in FilterNumberKeys \cup {"rooms"} THEN PyNum(ToNumber(value)[2])
    ELSE IF key \in {"parking", "elevator"}
         THEN IF value.kind = "bool" THEN value
              ELSE PyBool(Lower(value.val) \in RequiredWords)
         ELSE PyStr(Strip(ToStr(value)))
clean_filters(filters) ==
    LET kept == {k \in DOMAIN filters : ~FilterDrops(k, filters[k])}
    IN  [k \in kept |-> FilterValue(k, filters[k])]

----------------------------------------------------------------------------
(* bot.py: the session (context.user_data of the one conversing user), the  *)
(* inputs a handler receives, and what a handler did last                   *)

STATE_WAITING_FOR_GOAL == "waiting_for_goal"
STATE_REGISTER == "registering"
STATE_SEARCH == "searching"
STATE_FILTER == "filtering"
STATE_EDIT_FILTER == "edit_filtering"
STATE_EDIT_SELECTION == "edit_selecting"
STATE_EDIT == "editing"
STATE_CONFIRM == "confirming"

\* update.effective_user.id of the conversing user, and the owner of a listing of
\* somebody else
Me == 1
OtherUser == 2

DisplayLimit == 10

\* user messages (update.message.text, or the transcription of a voice message)
Texts == { <<"y","e","s">>,
           <<"N","o"," "," ","p","a","r","k","i","n","g",","," ","d","r","o","p"," ","t","h","e"," ","D","e","s","c","r","i","p","t","i","o","n">>,
           <<"E","d","i","t",":"," ","s","h","o","w"," ","a","l","l",","," ","r","e","m","o","v","e"," ","p","a","r","k","i","n","g",","," ","d","r","o","p"," ","t","h","e"," ","d","e","s","c","r","i","p","t","i","o","n">> }

\* words typed as the keywords of a filter
Keywords == { <<"F","l","a","t">> }

\* utterances that say a listing has no parking, and nothing else
NegationTexts == { <<"n","o"," ","p","a","r","k","i","n","g">>, <<"I","t"," ","h","a","s"," "," ","N","O"," ","g","a","r","a","g","e">> }

\* replies to the summary: one that holds a negative and an affirmative word, one that
\* holds a negative word inside another word, one that holds neither
ConfirmTexts == { <<"N","o","t","h","i","n","g"," ","i","s"," ","c","o","r","r","e","c","t">>, <<"I"," ","k","n","o","w">>, <<"C","h","a","n","g","e"," ","t","h","e"," ","p","r","i","c","e">> }

\* utterances that name a goal
GoalPhrases == { <<"A","D","D">>, <<"F","i","n","d">>, <<"f","i","l","t","e","r">>, <<"m","y"," ","p","r","o","p","e","r","t","i","e","s">> }

\* what the model replies to the extraction prompt: <<>> when the call fails or the
\* reply holds no JSON object, else <<the object>>
PartReply ==
    << [property_type |-> PyStr(<<"a","p","a","r","t","m","e","n","t">>), city |-> PyStr(<<"B","o","s","t","o","n">>),
        area |-> PyNum(90), price |-> PyStr(<<"4","0","0","0","0","0">>), address |-> PyStr(<<"n","u","l","l">>)] >>
RestReply ==
    << [title |-> PyStr(<<" ","C","o","z","y"," ","F","l","a","t">>), parking |-> PyStr(<<"Y","e","s">>),
        description |-> PyStr(<<"n","i","c","e">>)] >>
WholeReply == << RestReply[1] @@ PartReply[1] >>
NullReply == << [price |-> PyStr(<<>>), address |-> PyStr(<<"n","u","l","l">>)] >>
PriceReply == << [price |-> PyStr(<<"4","5","0","0","0","0">>), parking |-> PyStr(<<"y","e","s">>)] >>
FreeReply == << [price |-> PyStr(<<"0">>)] >>
\* answers that hold keys of the table that are no listing attribute
OwnerKeyReply == << [user_id |-> PyNum(OtherUser), price |-> PyNum(450000)] >>
IdKeyReply == << [id |-> PyStr(<<"3">>)] >>
PropertyReplies == { <<>>, NullReply, PartReply, RestReply, WholeReply, PriceReply, FreeReply,
                     OwnerKeyReply, IdKeyReply }

CityReply == << [city |-> PyStr(<<"b","o","s","t","o","n">>)] >>
ParkingReply == << [parking |-> PyStr(<<"r","e","q","u","i","r","e","d">>), max_price |-> PyStr(<<"n","u","l","l">>)] >>
OwnerReply == << [user_id |-> PyNum(OtherUser), city |-> PyStr(<<"n","u","l","l">>)] >>
FilterReplies == { <<>>, CityReply, ParkingReply, OwnerReply }

\* extract_property_info: <<>> for None, else <<the cleaned dict>>
extract_property_info(reply) ==
    IF reply = <<>> THEN <<>> ELSE <<clean_property_data(reply[1])>>

\* extract_search_filters: a dict, empty on failure
extract_search_filters(reply) ==
    IF reply = <<>> THEN EmptyDict ELSE clean_filters(reply[1])

\* what each input yields, computed once
TextFacts ==
    [t \in Texts \cup Keywords \cup GoalPhrases \cup NegationTexts \cup ConfirmTexts |-> [goal |-> parse_goal_from_text(t),
                      affirmative |-> IsAffirmative(t),
                      negative |-> IsNegative(t),
                      show_all |-> IsShowAll(t),
                      deletions |-> detect_field_deletions(t)]]
PropertyInfo == [reply \in PropertyReplies |-> extract_property_info(reply)]
SearchFilters == [reply \in FilterReplies |-> extract_search_filters(reply)]

\* `if not new_data`
NothingExtracted(new_data) == new_data = <<>> \/ new_data[1] = EmptyDict

\* context.user_data.get(key, default)
UdGet(ud, key, default) == IF key \in DOMAIN ud THEN ud[key] ELSE default
CurrentState(ud) == UdGet(ud, "state", STATE_WAITING_FOR_GOAL)
HasGoal(ud) == "goal" \in DOMAIN ud
PartialData(ud) == UdGet(ud, "partial_data", EmptyDict)
AllowedIds(ud) == UdGet(ud, "available_edit_property_ids", <<>>)
EditingId(ud) == UdGet(ud, "editing_property_id", 0)

\* context.user_data.clear(); context.user_data['state'] = STATE_WAITING_FOR_GOAL
ClearedSession == "state" :> STATE_WAITING_FOR_GOAL

\* what the last handler did: the routine that ran, how it ended, the dict it
\* extracted or handed to the store (for a reset, the state it left), and the listing
\* id it was about
Log(routine, outcome, data, id) ==
    [routine |-> routine, outcome |-> outcome, data |-> data, id |-> id]
Left(ud) == "state" :> CurrentState(ud)


----------------------------------------------------------------------------
(* bot.py: commands and goal selection                                     *)

\* a start that keeps the session and only goes back to goal selection
start_keeps_data ==
    /\ user_data' = DictSet(user_data, "state", STATE_WAITING_FOR_GOAL)
    /\ last' = Log("start", "reset", Left(user_data), 0)
    /\ UNCHANGED store

start ==
    /\ user_data' = ClearedSession
    /\ last' = Log("start", "reset", Left(user_data), 0)
    /\ UNCHANGED store

\* a cancel that goes back to goal selection and keeps the session data
cancel_keeps_data(routine) ==
    /\ user_data' = DictSet(user_data, "state", STATE_WAITING_FOR_GOAL)
    /\ last' = Log(routine, "cancelled", Left(user_data), 0)
    /\ UNCHANGED store

\* cancel, as the command or called by process_confirmation
cancel_conversation(routine) ==
    /\ user_data' = ClearedSession
    /\ last' = Log(routine, "cancelled", Left(user_data), 0)
    /\ UNCHANGED store

cancel == cancel_conversation("cancel")

help_command ==
    /\ last' = Log("help", "shown", EmptyDict, 0)
    /\ UNCHANGED <<user_data, store>>

\* a goal selection that keeps the fields accumulated so far
WithGoalKeepsFields(ud, goal) ==
    DictSet(DictSet(DictSet(ud, "goal", goal), "partial_data", PartialData(ud)),
            "conversation_history", <<>>)

\* context.user_data['goal'] = goal; ['partial_data'] = {}; ['conversation_history'] = []
WithGoal(ud, goal) ==
    DictSet(DictSet(DictSet(ud, "goal", goal), "partial_data", EmptyDict),
            "conversation_history", <<>>)

\* _send_properties_for_editing: the session after the cards are sent
send_properties_for_editing(ud, properties) ==
    IF properties = <<>> THEN ud
    ELSE DictSet(ud, "available_edit_property_ids",
                 [i \in 1..Len(properties) |-> properties[i]["id"].val])

\* the cards _send_properties_for_editing shows: properties[:limit]
ShownForEditing(properties) == Take(properties, DisplayLimit)

\* show_user_properties: the session after the listing
show_user_properties(ud, for_editing) ==
    IF for_editing
    THEN send_properties_for_editing(ud, get_user_properties(store, Me))
    ELSE ud

GoalState(goal) ==
    CASE goal = "register" -> STATE_REGISTER
      [] goal = "search"   -> STATE_SEARCH
      [] goal = "filter"   -> STATE_FILTER
      [] goal = "edit"     -> STATE_EDIT_FILTER

MenuGoals == {"register", "search", "filter", "edit", "list"}

\* a click on a goal button of the menu; db_ok: the store answers, else it raises
handle_goal_selection(goal, db_ok) ==
    /\ UNCHANGED store
    /\ IF goal = "list"
       THEN IF db_ok
            THEN /\ user_data' = DictSet(show_user_properties(WithGoal(user_data, goal), FALSE),
                                         "state", STATE_WAITING_FOR_GOAL)
                 /\ last' = Log("goal_selection", "listed", EmptyDict, 0)
            ELSE /\ user_data' = WithGoal(user_data, goal)
                 /\ last' = Log("goal_selection", "raised", EmptyDict, 0)
       ELSE /\ user_data' = DictSet(WithGoal(user_data, goal), "state", GoalState(goal))
            /\ last' = Log("goal_selection", goal, EmptyDict, 0)

\* a typed or spoken goal that enters the state the menu click enters
handle_text_goal_selection_as_menu(goal, db_ok) ==
    /\ UNCHANGED store
    /\ IF goal \in {"register", "search", "filter", "edit"}
       THEN /\ user_data' = DictSet(WithGoal(user_data, goal), "state", GoalState(goal))
            /\ last' = Log("router", goal, EmptyDict, 0)
       ELSE IF db_ok
            THEN /\ user_data' = DictSet(show_user_properties(WithGoal(user_data, goal), FALSE),
                                         "state", STATE_WAITING_FOR_GOAL)
                 /\ last' = Log("router", goal, EmptyDict, 0)
            ELSE /\ user_data' = WithGoal(user_data, goal)
                 /\ last' = Log("router", "raised", EmptyDict, 0)

\* _handle_text_goal_selection: the goal was typed or spoken
handle_text_goal_selection(goal, db_ok) ==
    /\ UNCHANGED store
    /\ IF goal \in {"register", "search", "filter"}
       THEN /\ user_data' = DictSet(WithGoal(user_data, goal), "state", GoalState(goal))
            /\ last' = Log("router", goal, EmptyDict, 0)
       ELSE IF goal = "edit"
       THEN LET entered == DictSet(WithGoal(user_data, goal), "state", STATE_EDIT)
            IN  IF db_ok
                THEN /\ user_data' = show_user_properties(entered, TRUE)
                     /\ last' = Log("router", goal, EmptyDict, 0)
                ELSE /\ user_data' = entered
                     /\ last' = Log("router", "raised", EmptyDict, 0)
       ELSE IF db_ok
            THEN /\ user_data' = DictSet(show_user_properties(WithGoal(user_data, goal), FALSE),
                                         "state", STATE_WAITING_FOR_GOAL)
                 /\ last' = Log("router", goal, EmptyDict, 0)
            ELSE /\ user_data' = WithGoal(user_data, goal)
                 /\ last' = Log("router", "raised", EmptyDict, 0)

----------------------------------------------------------------------------
(* bot.py: the input processing routines.  reply is the extraction          *)
(* service's answer to this input; db_ok is FALSE when the store call the   *)
(* routine makes raises                                                     *)

\* conversation_history.append({'role': 'user', 'message': user_input}); no handler
\* reads an entry back, and the entry is kept without its message
AppendHistory(ud) ==
    DictSet(ud, "conversation_history",
            Append(ud["conversation_history"], [role |-> "user"]))

\* a registration that validates what this turn extracted, not the merged data
process_register_input_unmerged(user_input, reply) ==
    /\ UNCHANGED store
    /\ LET noted == AppendHistory(user_data)
           new_data == PropertyInfo[reply]
       IN  IF NothingExtracted(new_data)
           THEN /\ user_data' = noted
                /\ last' = Log("register", "not_understood", EmptyDict, 0)
           ELSE LET merged == DictSet(noted, "partial_data",
                                      Merge(PartialData(noted), new_data[1]))
                IN  IF ~validate_property_data(new_data[1])[1]
                    THEN /\ user_data' = merged
                         /\ last' = Log("register", "missing_info", new_data[1], 0)
                    ELSE /\ user_data' = DictSet(merged, "state", STATE_CONFIRM)
                         /\ last' = Log("register", "confirm_data", new_data[1], 0)

process_register_input(user_input, reply) ==
    /\ UNCHANGED store
    /\ LET noted == AppendHistory(user_data)
           new_data == PropertyInfo[reply]
       IN  IF NothingExtracted(new_data)
           THEN /\ user_data' = noted
                /\ last' = Log("register", "not_understood", EmptyDict, 0)
           ELSE LET merged_data == Merge(PartialData(noted), new_data[1])
                    merged == DictSet(noted, "partial_data", merged_data)
                    is_valid == validate_property_data(merged_data)[1]
                IN  IF ~is_valid
                    THEN /\ user_data' = merged
                         /\ last' = Log("register", "missing_info", new_data[1], 0)
                    ELSE /\ user_data' = DictSet(merged, "state", STATE_CONFIRM)
                         /\ last' = Log("register", "confirm_data", new_data[1], 0)

\* a search that stays in searching when nothing was found
process_search_input_retries(user_input, reply, db_ok) ==
    /\ UNCHANGED store
    /\ LET noted == AppendHistory(user_data)
           filters == SearchFilters[reply]
           merged_filters == Merge(PartialData(noted), filters)
           merged == DictSet(noted, "partial_data", merged_filters)
       IN  IF ~db_ok
           THEN /\ user_data' = merged
                /\ last' = Log("search", "raised", filters, 0)
           ELSE IF search_properties(store, merged_filters) = <<>>
           THEN /\ user_data' = merged
                /\ last' = Log("search", "no_results", filters, 0)
           ELSE /\ user_data' = DictSet(merged, "state", STATE_WAITING_FOR_GOAL)
                /\ last' = Log("search", "results", filters, 0)

process_search_input(user_input, reply, db_ok) ==
    /\ UNCHANGED store
    /\ LET noted == AppendHistory(user_data)
           filters == SearchFilters[reply]
           merged_filters == Merge(PartialData(noted), filters)
           merged == DictSet(noted, "partial_data", merged_filters)
       IN  IF ~db_ok
           THEN /\ user_data' = merged
                /\ last' = Log("search", "raised", filters, 0)
           ELSE /\ user_data' = DictSet(merged, "state", STATE_WAITING_FOR_GOAL)
                /\ last' = Log("search",
                               IF search_properties(store, merged_filters) = <<>>
                               THEN "no_results" ELSE "results",
                               filters, 0)

process_filter_input(user_input, db_ok) ==
    /\ UNCHANGED store
    /\ IF ~db_ok
       THEN /\ UNCHANGED user_data
            /\ last' = Log("filter", "raised", EmptyDict, 0)
       ELSE /\ user_data' = DictSet(user_data, "state", STATE_WAITING_FOR_GOAL)
            /\ last' = Log("filter",
                           IF filter_by_keywords(store, user_input) = <<>>
                           THEN "no_results" ELSE "results",
                           EmptyDict, 0)

\* an edit filter that searches with the extracted filters as they are
process_edit_filter_input_unscoped(user_input, reply, db_ok) ==
    /\ UNCHANGED store
    /\ IF TextFacts[user_input].show_all
       THEN IF ~db_ok
            THEN /\ UNCHANGED user_data
                 /\ last' = Log("edit_filter", "raised", EmptyDict, 0)
            ELSE LET properties == get_user_properties(store, Me)
                 IN  IF properties = <<>>
                     THEN /\ user_data' = DictSet(user_data, "state", STATE_WAITING_FOR_GOAL)
                          /\ last' = Log("edit_filter", "none_registered", EmptyDict, 0)
                     ELSE /\ user_data' = DictSet(
                                 send_properties_for_editing(user_data, properties),
                                 "state", STATE_EDIT_SELECTION)
                          /\ last' = Log("edit_filter", "all_listed", EmptyDict, 0)
       ELSE LET extracted == SearchFilters[reply]
            IN  IF extracted = EmptyDict
                THEN /\ UNCHANGED user_data
                     /\ last' = Log("edit_filter", "need_filters", EmptyDict, 0)
                ELSE LET filters == extracted
                         noted == DictSet(user_data, "latest_edit_filters", filters)
                         properties == search_properties(store, filters)
                     IN  IF ~db_ok
                         THEN /\ user_data' = noted
                              /\ last' = Log("edit_filter", "raised", filters, 0)
                         ELSE IF properties = <<>>
                         THEN /\ user_data' = noted
                              /\ last' = Log("edit_filter", "no_matches", filters, 0)
                         ELSE /\ user_data' = DictSet(
                                     send_properties_for_editing(noted, properties),
                                     "state", STATE_EDIT_SELECTION)
                              /\ last' = Log("edit_filter", "results", filters, 0)

process_edit_filter_input(user_input, reply, db_ok) ==
    /\ UNCHANGED store
    /\ IF TextFacts[user_input].show_all
       THEN IF ~db_ok
            THEN /\ UNCHANGED user_data
                 /\ last' = Log("edit_filter", "raised", EmptyDict, 0)
            ELSE LET properties == get_user_properties(store, Me)
                 IN  IF properties = <<>>
                     THEN /\ user_data' = DictSet(user_data, "state", STATE_WAITING_FOR_GOAL)
                          /\ last' = Log("edit_filter", "none_registered", EmptyDict, 0)
                     ELSE /\ user_data' = DictSet(
                                 send_properties_for_editing(user_data, properties),
                                 "state", STATE_EDIT_SELECTION)
                          /\ last' = Log("edit_filter", "all_listed", EmptyDict, 0)
       ELSE LET extracted == SearchFilters[reply]
            IN  IF extracted = EmptyDict
                THEN /\ UNCHANGED user_data
                     /\ last' = Log("edit_filter", "need_filters", EmptyDict, 0)
                ELSE LET filters == DictSet(extracted, "user_id", PyNum(Me))
                         noted == DictSet(user_data, "latest_edit_filters", filters)
                         properties == search_properties(store, filters)
                     IN  IF ~db_ok
                         THEN /\ user_data' = noted
                              /\ last' = Log("edit_filter", "raised", filters, 0)
                         ELSE IF properties = <<>>
                         THEN /\ user_data' = noted
                              /\ last' = Log("edit_filter", "no_matches", filters, 0)
                         ELSE /\ user_data' = DictSet(
                                     send_properties_for_editing(noted, properties),
                                     "state", STATE_EDIT_SELECTION)
                              /\ last' = Log("edit_filter", "results", filters, 0)

\* updates where the extracted value wins over the deletion
EditUpdatesExtractionWins(user_input, reply) ==
    LET extracted == PropertyInfo[reply]
        updates == IF extracted = <<>> THEN EmptyDict ELSE extracted[1]
    IN  DictUpdate(TextFacts[user_input].deletions, updates)

\* the updates process_edit_input hands to update_property
EditUpdates(user_input, reply) ==
    LET extracted == PropertyInfo[reply]
        updates == IF extracted = <<>> THEN EmptyDict ELSE extracted[1]
        deletion_updates == TextFacts[user_input].deletions
    IN  IF deletion_updates # EmptyDict THEN DictUpdate(updates, deletion_updates)
        ELSE updates

\* pop editing_property_id and available_edit_property_ids, back to goal selection
AfterEdit(ud) ==
    DictSet(DictPop(DictPop(ud, "editing_property_id"), "available_edit_property_ids"),
            "state", STATE_WAITING_FOR_GOAL)

\* an edit that gives the selection up when it understood nothing
process_edit_input_gives_up(user_input, reply, db_ok, read_ok) ==
    LET property_id == EditingId(user_data)
        updates == EditUpdates(user_input, reply)
    IN  IF property_id = 0
        THEN /\ UNCHANGED <<user_data, store>>
             /\ last' = Log("edit", "select_first", EmptyDict, 0)
        ELSE IF updates = EmptyDict
        THEN /\ UNCHANGED store
             /\ user_data' = AfterEdit(user_data)
             /\ last' = Log("edit", "not_understood", EmptyDict, property_id)
        ELSE IF ~db_ok \/ (Exists(store, property_id) /\ UpdateViolatesNotNull(updates))
        THEN \* update_property rolls back and raises: nothing after the call runs
             /\ UNCHANGED <<user_data, store>>
             /\ last' = Log("edit", "raised", updates, property_id)
        ELSE IF ~Exists(store, property_id)
        THEN /\ UNCHANGED store
             /\ user_data' = AfterEdit(user_data)
             /\ last' = Log("edit", "failed", updates, property_id)
        ELSE /\ store' = update_property(store, property_id, updates)
             /\ IF ~read_ok \/ get_property(store', property_id) = PyNone
                THEN \* get_property raises, or updated_prop is None and
                     \* updated_prop.to_text() raises
                     /\ UNCHANGED user_data
                     /\ last' = Log("edit", "raised_after_update", updates, property_id)
                ELSE /\ user_data' = AfterEdit(user_data)
                     /\ last' = Log("edit", "updated", updates, property_id)

process_edit_input(user_input, reply, db_ok, read_ok) ==
    LET property_id == EditingId(user_data)
        updates == EditUpdates(user_input, reply)
    IN  IF property_id = 0
        THEN /\ UNCHANGED <<user_data, store>>
             /\ last' = Log("edit", "select_first", EmptyDict, 0)
        ELSE IF updates = EmptyDict
        THEN /\ UNCHANGED <<user_data, store>>
             /\ last' = Log("edit", "not_understood", EmptyDict, property_id)
        ELSE IF ~db_ok \/ (Exists(store, property_id) /\ UpdateViolatesNotNull(updates))
        THEN \* update_property rolls back and raises: nothing after the call runs
             /\ UNCHANGED <<user_data, store>>
             /\ last' = Log("edit", "raised", updates, property_id)
        ELSE IF ~Exists(store, property_id)
        THEN /\ UNCHANGED store
             /\ user_data' = AfterEdit(user_data)
             /\ last' = Log("edit", "failed", updates, property_id)
        ELSE /\ store' = update_property(store, property_id, updates)
             /\ IF ~read_ok \/ get_property(store', property_id) = PyNone
                THEN \* get_property raises, or updated_prop is None and
                     \* updated_prop.to_text() raises
                     /\ UNCHANGED user_data
                     /\ last' = Log("edit", "raised_after_update", updates, property_id)
                ELSE /\ user_data' = AfterEdit(user_data)
                     /\ last' = Log("edit", "updated", updates, property_id)

\* a finalize that saves and forgets to clear the session
finalize_keeps_session(db_ok, read_ok) ==
    LET property_data == PartialData(user_data)
    IN  IF ~db_ok
        THEN /\ UNCHANGED <<user_data, store>>
             /\ last' = Log("confirm", "save_failed", property_data, 0)
        ELSE /\ store' = add_property(store, Me, property_data)
             /\ user_data' = DictSet(user_data, "state", STATE_WAITING_FOR_GOAL)
             /\ last' = Log("confirm", IF read_ok THEN "saved" ELSE "failed_after_save",
                            property_data, NextId(store))

\* a finalize that clears the session when the insert raised
finalize_clears_on_failure(db_ok, read_ok) ==
    LET property_data == PartialData(user_data)
    IN  IF ~db_ok
        THEN /\ UNCHANGED store
             /\ user_data' = ClearedSession
             /\ last' = Log("confirm", "save_failed", property_data, 0)
        ELSE /\ store' = add_property(store, Me, property_data)
             /\ IF ~read_ok
                THEN /\ UNCHANGED user_data
                     /\ last' = Log("confirm", "failed_after_save", property_data,
                                    NextId(store))
                ELSE /\ user_data' = ClearedSession
                     /\ last' = Log("confirm", "saved", property_data, NextId(store))

\* finalize_registration: add_property raises (db_ok is FALSE), or the get_property
\* that reads the new listing back raises (read_ok is FALSE); both are caught there
finalize_registration(db_ok, read_ok) ==
    LET property_data == PartialData(user_data)
    IN  IF ~db_ok
        THEN /\ UNCHANGED <<user_data, store>>
             /\ last' = Log("confirm", "save_failed", property_data, 0)
        ELSE /\ store' = add_property(store, Me, property_data)
             /\ IF ~read_ok
                THEN /\ UNCHANGED user_data
                     /\ last' = Log("confirm", "failed_after_save", property_data,
                                    NextId(store))
                ELSE /\ user_data' = ClearedSession
                     /\ last' = Log("confirm", "saved", property_data, NextId(store))

\* a confirmation whose other replies replace the accumulated fields
process_confirmation_replaces(user_input, reply, db_ok, read_ok) ==
    IF TextFacts[user_input].affirmative
    THEN finalize_registration(db_ok, read_ok)
    ELSE IF TextFacts[user_input].negative
    THEN cancel_conversation("confirm")
    ELSE /\ UNCHANGED store
         /\ LET new_data == PropertyInfo[reply]
            IN  IF NothingExtracted(new_data)
                THEN /\ UNCHANGED user_data
                     /\ last' = Log("confirm", "not_understood", EmptyDict, 0)
                ELSE /\ user_data' = DictSet(user_data, "partial_data", new_data[1])
                     /\ last' = Log("confirm", "merged", new_data[1], 0)

\* a confirmation that tests the negative words first
process_confirmation_negative_first(user_input, reply, db_ok, read_ok) ==
    IF TextFacts[user_input].negative
    THEN cancel_conversation("confirm")
    ELSE IF TextFacts[user_input].affirmative
    THEN finalize_registration(db_ok, read_ok)
    ELSE /\ UNCHANGED store
         /\ LET new_data == PropertyInfo[reply]
            IN  IF NothingExtracted(new_data)
                THEN /\ UNCHANGED user_data
                     /\ last' = Log("confirm", "not_understood", EmptyDict, 0)
                ELSE /\ user_data' = DictSet(user_data, "partial_data",
                                             Merge(PartialData(user_data), new_data[1]))
                     /\ last' = Log("confirm", "merged", new_data[1], 0)

process_confirmation(user_input, reply, db_ok, read_ok) ==
    IF TextFacts[user_input].affirmative
    THEN finalize_registration(db_ok, read_ok)
    ELSE IF TextFacts[user_input].negative
    THEN cancel_conversation("confirm")
    ELSE /\ UNCHANGED store
         /\ LET new_data == PropertyInfo[reply]
            IN  IF NothingExtracted(new_data)
                THEN /\ UNCHANGED user_data
                     /\ last' = Log("confirm", "not_understood", EmptyDict, 0)
                ELSE /\ user_data' = DictSet(user_data, "partial_data",
                                             Merge(PartialData(user_data), new_data[1]))
                     /\ last' = Log("confirm", "merged", new_data[1], 0)

----------------------------------------------------------------------------
(* bot.py: the handlers                                                    *)

\* a test of the state alone
AwaitsGoalByState(ud) == CurrentState(ud) = STATE_WAITING_FOR_GOAL

\* `current_state == STATE_WAITING_FOR_GOAL or not context.user_data.get('goal')`
AwaitsGoal(ud) == CurrentState(ud) = STATE_WAITING_FOR_GOAL \/ ~HasGoal(ud)

\* the dispatch on the session's state that handle_text_message and
\* handle_voice_message both make, for one text and the answers of the services
Dispatch(text, property_reply, filter_reply, db_ok, read_ok) ==
    LET current_state == CurrentState(user_data)
    IN  IF AwaitsGoal(user_data)
        THEN LET goal == TextFacts[text].goal
             IN  IF goal # NoGoal
                 THEN handle_text_goal_selection(goal, db_ok)
                 ELSE /\ UNCHANGED <<user_data, store>>
                      /\ last' = Log("router", "no_goal_warning", EmptyDict, 0)
        ELSE CASE current_state = STATE_REGISTER ->
                    process_register_input(text, property_reply)
               [] current_state = STATE_SEARCH ->
                    process_search_input(text, filter_reply, db_ok)
               [] current_state = STATE_FILTER ->
                    process_filter_input(text, db_ok)
               [] current_state \in {STATE_EDIT_FILTER, STATE_EDIT_SELECTION} ->
                    process_edit_filter_input(text, filter_reply, db_ok)
               [] current_state = STATE_EDIT ->
                    process_edit_input(text, property_reply, db_ok, read_ok)
               [] current_state = STATE_CONFIRM ->
                    process_confirmation(text, property_reply, db_ok, read_ok)

\* the service a routine asks depends on the state: only its answer is drawn
UsesPropertyReply(ud) ==
    ~AwaitsGoal(ud) /\ CurrentState(ud) \in {STATE_REGISTER, STATE_EDIT, STATE_CONFIRM}
UsesFilterReply(ud) ==
    ~AwaitsGoal(ud)
    /\ CurrentState(ud) \in {STATE_SEARCH, STATE_EDIT_FILTER, STATE_EDIT_SELECTION}
NoReply == <<>>
ReadsBack(ud) == ~AwaitsGoal(ud) /\ CurrentState(ud) \in {STATE_EDIT, STATE_CONFIRM}

\* a run keeps the listing ids and the length of the history within the bounds of
\* the environment E it is explored in
Within(E) ==
    /\ \A i \in 1..Len(store') : store'[i]["id"].val \in E.ids
    /\ Len(UdGet(user_data', "conversation_history", <<>>)) <= E.max_history

Utterance(E, texts) ==
    \E text \in texts, db_ok \in E.db :
        \E property_reply \in IF UsesPropertyReply(user_data) THEN E.property_replies
                              ELSE {NoReply} :
            \E filter_reply \in IF UsesFilterReply(user_data) THEN E.filter_replies
                                ELSE {NoReply} :
                \E read_ok \in IF db_ok /\ ReadsBack(user_data) THEN E.db ELSE {TRUE} :
                    /\ Dispatch(text, property_reply, filter_reply, db_ok, read_ok)
                    /\ Within(E)

handle_text_message(E) == Utterance(E, E.texts)

\* a voice handler that starts the conversation over when it recognizes nothing
handle_voice_message_resets(E) ==
    \/ /\ last' = Log("voice", "unavailable", EmptyDict, 0)
       /\ UNCHANGED <<user_data, store>>
    \/ /\ last' = Log("voice", "not_recognized", EmptyDict, 0)
       /\ user_data' = ClearedSession
       /\ UNCHANGED store
    \/ Utterance(E, E.transcripts)

\* a voice message: the service is unavailable, or the download or the transcription
\* fails or recognizes nothing, or the recognized text is dispatched like a typed one
handle_voice_message(E) ==
    \/ /\ last' = Log("voice", "unavailable", EmptyDict, 0)
       /\ UNCHANGED <<user_data, store>>
    \/ /\ last' = Log("voice", "not_recognized", EmptyDict, 0)
       /\ UNCHANGED <<user_data, store>>
    \/ Utterance(E, E.transcripts)

\* a store call of a property callback raises: handle_callback_query ends there
CallbackRaised == Log("callback", "raised", EmptyDict, 0)

\* callback 'goal_<goal>'
goal_callback(E) ==
    \E goal \in MenuGoals, db_ok \in E.db : handle_goal_selection(goal, db_ok)

\* a selection without the ownership test, and one without the membership test
select_edit_unowned(property_id, db_ok) ==
    LET allowed_ids == AllowedIds(user_data)
    IN  /\ UNCHANGED store
        /\ IF ~db_ok
           THEN /\ UNCHANGED user_data
                /\ last' = CallbackRaised
           ELSE IF allowed_ids # <<>> /\ property_id \notin SeqToSet(allowed_ids)
           THEN /\ UNCHANGED user_data
                /\ last' = Log("select_edit", "not_in_results", EmptyDict, property_id)
           ELSE /\ user_data' = DictSet(DictSet(user_data, "editing_property_id",
                                                property_id),
                                        "state", STATE_EDIT)
                /\ last' = Log("select_edit", "selected", EmptyDict, property_id)

select_edit_unlisted(property_id, db_ok) ==
    LET property_obj == get_property(store, property_id)
    IN  /\ UNCHANGED store
        /\ IF ~db_ok
           THEN /\ UNCHANGED user_data
                /\ last' = CallbackRaised
           ELSE IF property_obj = PyNone \/ property_obj["user_id"] # PyNum(Me)
           THEN /\ UNCHANGED user_data
                /\ last' = Log("select_edit", "not_yours", EmptyDict, property_id)
           ELSE /\ user_data' = DictSet(DictSet(user_data, "editing_property_id",
                                                property_id),
                                        "state", STATE_EDIT)
                /\ last' = Log("select_edit", "selected", EmptyDict, property_id)

\* callback 'edit_<property_id>'
select_edit(property_id, db_ok) ==
    LET property_obj == get_property(store, property_id)
        allowed_ids == AllowedIds(user_data)
    IN  /\ UNCHANGED store
        /\ IF ~db_ok
           THEN /\ UNCHANGED user_data
                /\ last' = CallbackRaised
           ELSE IF property_obj = PyNone \/ property_obj["user_id"] # PyNum(Me)
           THEN /\ UNCHANGED user_data
                /\ last' = Log("select_edit", "not_yours", EmptyDict, property_id)
           ELSE IF allowed_ids # <<>> /\ property_id \notin SeqToSet(allowed_ids)
           THEN /\ UNCHANGED user_data
                /\ last' = Log("select_edit", "not_in_results", EmptyDict, property_id)
           ELSE /\ user_data' = DictSet(DictSet(user_data, "editing_property_id",
                                                property_id),
                                        "state", STATE_EDIT)
                /\ last' = Log("select_edit", "selected", EmptyDict, property_id)

edit_callback(E) ==
    \E property_id \in E.ids, db_ok \in E.db : select_edit(property_id, db_ok)

\* callback 'view_<id>': the card is shown, or "not found"
view_property(E) ==
    \E property_id \in E.ids, db_ok \in E.db :
        /\ last' = IF ~db_ok THEN CallbackRaised
                   ELSE Log("view",
                            IF Exists(store, property_id) THEN "shown" ELSE "not_found",
                            EmptyDict, property_id)
        /\ UNCHANGED <<user_data, store>>

\* callback 'confirm_delete_<id>'
confirm_delete(E) ==
    \E property_id \in E.ids, db_ok \in E.db :
        /\ UNCHANGED user_data
        /\ IF ~db_ok
           THEN /\ UNCHANGED store
                /\ last' = CallbackRaised
           ELSE IF CanDelete(store, property_id, Me)
           THEN /\ store' = delete_property(store, property_id, Me)
                /\ last' = Log("confirm_delete", "deleted", EmptyDict, property_id)
           ELSE /\ UNCHANGED store
                /\ last' = Log("confirm_delete", "error", EmptyDict, property_id)

\* the conversation of another user ends in finalize_registration with their data
OtherListing ==
    [title |-> PyStr(<<"L","o","f","t">>), property_type |-> PyStr(<<"l","o","f","t">>),
     city |-> PyStr(<<"P","a","r","i","s">>), area |-> PyNum(50), price |-> PyNum(100000)]

other_user_registers(E) ==
    /\ store' = add_property(store, OtherUser, OtherListing)
    /\ last' = Log("other_user", "saved", EmptyDict, NextId(store))
    /\ UNCHANGED user_data
    /\ Within(E)

----------------------------------------------------------------------------
(* the bot after construction: no session data, an empty table              *)

Init ==
    /\ user_data = EmptyDict
    /\ store = <<>>
    /\ last = Log("init", "none", EmptyDict, 0)

\* one listing, every kind of input, the store may fail
MaxId == 1
MaxHistory == 2
Conversation ==
    [texts |-> Texts, transcripts |-> {<<"y","e","s">>},
     property_replies |-> {<<>>, NullReply, PartReply, RestReply},
     filter_replies |-> {<<>>}, ids |-> 1..MaxId,
     max_history |-> MaxHistory, db |-> BOOLEAN]

Next ==
    \/ start
    \/ cancel
    \/ help_command
    \/ goal_callback(Conversation)
    \/ handle_text_message(Conversation)
    \/ handle_voice_message(Conversation)
    \/ edit_callback(Conversation)
    \/ view_property(Conversation)
    \/ confirm_delete(Conversation)
    \/ other_user_registers(Conversation)

Spec == Init /\ [][Next]_vars

\* two listings, complete extractions, a store that answers
MaxListings == 2
TwoListings ==
    [texts |-> {<<"y","e","s">>, <<"N","o"," "," ","p","a","r","k","i","n","g",","," ","d","r","o","p"," ","t","h","e"," ","D","e","s","c","r","i","p","t","i","o","n">>},
     transcripts |-> {<<"y","e","s">>},
     property_replies |-> {WholeReply}, filter_replies |-> {ParkingReply},
     ids |-> 1..MaxListings, max_history |-> 1, db |-> {TRUE}]

NextTwoListings ==
    \/ start
    \/ cancel
    \/ help_command
    \/ goal_callback(TwoListings)
    \/ handle_text_message(TwoListings)
    \/ handle_voice_message(TwoListings)
    \/ edit_callback(TwoListings)
    \/ view_property(TwoListings)
    \/ confirm_delete(TwoListings)
    \/ other_user_registers(TwoListings)

SpecTwoListings == Init /\ [][NextTwoListings]_vars

\* a table that holds, from earlier conversations, one listing more than a message
\* of candidates shows, all of the caller, and a listing of another user; no listing
\* is added or changed; the store may fail
RECURSIVE Registered(_, _)
Registered(rows, owners) ==
    IF owners = <<>> THEN rows
    ELSE Registered(add_property(rows, Head(owners),
                                 IF Head(owners) = Me THEN PropertyInfo[WholeReply][1]
                                 ELSE OtherListing),
                    Tail(owners))

FullTable == Registered(<<>>, [i \in 1..(DisplayLimit + 1) |-> Me] \o <<OtherUser>>)

ManyListings ==
    [texts |-> Keywords \cup GoalPhrases
                \cup {<<"E","d","i","t",":"," ","s","h","o","w"," ","a","l","l",","," ","r","e","m","o","v","e"," ","p","a","r","k","i","n","g",","," ","d","r","o","p"," ","t","h","e"," ","d","e","s","c","r","i","p","t","i","o","n">>},
     transcripts |-> Keywords \cup GoalPhrases,
     property_replies |-> {<<>>}, filter_replies |-> {<<>>, CityReply, OwnerReply},
     ids |-> Ids(FullTable), max_history |-> MaxHistory, db |-> BOOLEAN]

InitManyListings ==
    /\ user_data = EmptyDict
    /\ store \in {<<>>, FullTable}
    /\ last = Log("init", "none", EmptyDict, 0)

NextManyListings ==
    \/ start
    \/ cancel
    \/ goal_callback(ManyListings)
    \/ handle_text_message(ManyListings)
    \/ handle_voice_message(ManyListings)

SpecManyListings == InitManyListings /\ [][NextManyListings]_vars

\* a table that holds a listing of the caller, with parking, and a listing of another
\* user; the caller says that a listing has no parking; the extraction answers nothing,
\* or the fields of the listing, or a price and a parking, or a price of 0; the store
\* may fail
ParkingTable == Registered(<<>>, <<Me, OtherUser>>)

NoParking ==
    [texts |-> NegationTexts, transcripts |-> NegationTexts,
     property_replies |-> {<<>>, RestReply, PriceReply, FreeReply},
     filter_replies |-> {<<>>},
     ids |-> Ids(ParkingTable), max_history |-> 1, db |-> BOOLEAN]

InitNoParking ==
    /\ user_data = EmptyDict
    /\ store = ParkingTable
    /\ last = Log("init", "none", EmptyDict, 0)

NextNoParking ==
    \/ start
    \/ cancel
    \/ goal_callback(NoParking)
    \/ handle_text_message(NoParking)
    \/ handle_voice_message(NoParking)
    \/ edit_callback(NoParking)

SpecNoParking == InitNoParking /\ [][NextNoParking]_vars

\* replies to the summary of a registration; the store may fail
Confirming ==
    [texts |-> ConfirmTexts, transcripts |-> ConfirmTexts,
     property_replies |-> {<<>>, WholeReply, PriceReply},
     filter_replies |-> {<<>>}, ids |-> 1..MaxId, max_history |-> 1, db |-> BOOLEAN]

NextConfirming ==
    \/ cancel
    \/ goal_callback(Confirming)
    \/ handle_text_message(Confirming)
    \/ handle_voice_message(Confirming)

SpecConfirming == Init /\ [][NextConfirming]_vars

\* the same table; the extraction answers with keys of the table: the owner, the id
AnyKeys ==
    [texts |-> {<<"y","e","s">>}, transcripts |-> {<<"y","e","s">>},
     property_replies |-> {<<>>, PriceReply, OwnerKeyReply, IdKeyReply},
     filter_replies |-> {<<>>}, ids |-> 1..(Len(ParkingTable) + 1), max_history |-> 1,
     db |-> BOOLEAN]

NextAnyKeys ==
    \/ start
    \/ cancel
    \/ goal_callback(AnyKeys)
    \/ handle_text_message(AnyKeys)
    \/ handle_voice_message(AnyKeys)
    \/ edit_callback(AnyKeys)

SpecAnyKeys == InitNoParking /\ [][NextAnyKeys]_vars

----------------------------------------------------------------------------
(* a voice message step by step: handle_voice_message reads the state, awaits *)
(* the download and the transcription, and dispatches on the state it read    *)

\* the handler suspended at an await, in `last`: the state it read, and the update of
\* the same user that arrived since and waits in the queue of the application
Awaiting(current_state, queued) ==
    Log("voice", "awaiting", ("state" :> current_state) @@ ("queued" :> queued), 0)
Suspended == last.routine = "voice" /\ last.outcome = "awaiting"

\* current_state = context.user_data.get('state', ...); the service is unavailable,
\* or the handler reaches await update.message.voice.get_file()
voice_received ==
    /\ ~Suspended
    /\ \/ last' = Log("voice", "unavailable", EmptyDict, 0)
       \/ last' = Awaiting(CurrentState(user_data), "none")
    /\ UNCHANGED <<user_data, store>>

OverlappingUpdates == {"start", "cancel", "goal_register", "goal_search", "text"}

\* an application that starts the handler of an update while another handler is
\* suspended (concurrent_updates): the command or the click is handled at once
deliver_concurrently(update) ==
    /\ Suspended /\ last.data["queued"] = "none"
    /\ last' = Awaiting(last.data["state"], update)
    /\ UNCHANGED store
    /\ user_data' = CASE update \in {"start", "cancel"} -> ClearedSession
                      [] update = "goal_register" ->
                            DictSet(WithGoal(user_data, "register"), "state", STATE_REGISTER)
                      [] update = "goal_search" ->
                            DictSet(WithGoal(user_data, "search"), "state", STATE_SEARCH)
                      [] OTHER -> user_data

\* an update of the same user arrives while the handler is suspended: the
\* application, built without concurrent_updates and with blocking handlers, awaits
\* the running handler before it takes the next update from its queue
deliver_while_busy(update) ==
    /\ Suspended /\ last.data["queued"] = "none"
    /\ last' = Awaiting(last.data["state"], update)
    /\ UNCHANGED <<user_data, store>>

update_arrives == \E update \in OverlappingUpdates : deliver_while_busy(update)

\* a dispatch that tests the state read and not the goal
DispatchOnStateAlone(current_state, text, property_reply, filter_reply, db_ok, read_ok) ==
    IF current_state = STATE_WAITING_FOR_GOAL
    THEN LET goal == TextFacts[text].goal
         IN  IF goal # NoGoal
             THEN handle_text_goal_selection(goal, db_ok)
             ELSE /\ UNCHANGED <<user_data, store>>
                  /\ last' = Log("router", "no_goal_warning", EmptyDict, 0)
    ELSE CASE current_state = STATE_REGISTER ->
                process_register_input(text, property_reply)
           [] current_state = STATE_SEARCH ->
                process_search_input(text, filter_reply, db_ok)
           [] current_state = STATE_FILTER ->
                process_filter_input(text, db_ok)
           [] current_state \in {STATE_EDIT_FILTER, STATE_EDIT_SELECTION} ->
                process_edit_filter_input(text, filter_reply, db_ok)
           [] current_state = STATE_EDIT ->
                process_edit_input(text, property_reply, db_ok, read_ok)
           [] current_state = STATE_CONFIRM ->
                process_confirmation(text, property_reply, db_ok, read_ok)

\* the dispatch of handle_voice_message: on the state read before the awaits, and on
\* the goal the session holds after them
DispatchOn(current_state, text, property_reply, filter_reply, db_ok, read_ok) ==
    IF current_state = STATE_WAITING_FOR_GOAL \/ ~HasGoal(user_data)
    THEN LET goal == TextFacts[text].goal
         IN  IF goal # NoGoal
             THEN handle_text_goal_selection(goal, db_ok)
             ELSE /\ UNCHANGED <<user_data, store>>
                  /\ last' = Log("router", "no_goal_warning", EmptyDict, 0)
    ELSE CASE current_state = STATE_REGISTER ->
                process_register_input(text, property_reply)
           [] current_state = STATE_SEARCH ->
                process_search_input(text, filter_reply, db_ok)
           [] current_state = STATE_FILTER ->
                process_filter_input(text, db_ok)
           [] current_state \in {STATE_EDIT_FILTER, STATE_EDIT_SELECTION} ->
                process_edit_filter_input(text, filter_reply, db_ok)
           [] current_state = STATE_EDIT ->
                process_edit_input(text, property_reply, db_ok, read_ok)
           [] current_state = STATE_CONFIRM ->
                process_confirmation(text, property_reply, db_ok, read_ok)

\* the answers the routine of a state can get: only the service it asks answers
PropertyRepliesIn(E, current_state) ==
    IF current_state \in {STATE_REGISTER, STATE_EDIT, STATE_CONFIRM}
    THEN E.property_replies ELSE {NoReply}
FilterRepliesIn(E, current_state) ==
    IF current_state \in {STATE_SEARCH, STATE_EDIT_FILTER, STATE_EDIT_SELECTION}
    THEN E.filter_replies ELSE {NoReply}
ReadsIn(E, current_state) ==
    IF current_state \in {STATE_EDIT, STATE_CONFIRM} THEN E.db ELSE {TRUE}

\* the awaits return: nothing was recognized, or the text is dispatched
voice_resumed(E) ==
    /\ Suspended
    /\ \/ /\ last' = Log("voice", "not_recognized", EmptyDict, 0)
          /\ UNCHANGED <<user_data, store>>
       \/ \E text \in E.transcripts, db_ok \in E.db :
             \E read_ok \in ReadsIn(E, last.data["state"]),
                property_reply \in PropertyRepliesIn(E, last.data["state"]),
                filter_reply \in FilterRepliesIn(E, last.data["state"]) :
                /\ DispatchOn(last.data["state"], text, property_reply, filter_reply,
                              db_ok, read_ok)
                /\ Within(E)

\* utterances that name a goal, confirm or edit, typed or spoken; a partial and a
\* complete extraction
Overlap ==
    [texts |-> {<<"A","D","D">>, <<"y","e","s">>,
                <<"E","d","i","t",":"," ","s","h","o","w"," ","a","l","l",","," ","r","e","m","o","v","e"," ","p","a","r","k","i","n","g",","," ","d","r","o","p"," ","t","h","e"," ","d","e","s","c","r","i","p","t","i","o","n">>},
     transcripts |-> {<<"A","D","D">>, <<"y","e","s">>,
                      <<"E","d","i","t",":"," ","s","h","o","w"," ","a","l","l",","," ","r","e","m","o","v","e"," ","p","a","r","k","i","n","g",","," ","d","r","o","p"," ","t","h","e"," ","d","e","s","c","r","i","p","t","i","o","n">>},
     property_replies |-> {<<>>, PartReply, WholeReply}, filter_replies |-> {<<>>, CityReply},
     ids |-> 1..MaxId, max_history |-> 1, db |-> BOOLEAN]

NextOverlap ==
    \/ ~Suspended /\ start
    \/ ~Suspended /\ cancel
    \/ ~Suspended /\ goal_callback(Overlap)
    \/ ~Suspended /\ handle_text_message(Overlap)
    \/ ~Suspended /\ edit_callback(Overlap)
    \/ voice_received
    \/ update_arrives
    \/ voice_resumed(Overlap)

SpecOverlap == Init /\ [][NextOverlap]_vars

----------------------------------------------------------------------------
(* the pure functions, each called on inputs drawn from a bounded set; the  *)
(* call and what it returned are kept in `last`                             *)

Call(routine, arguments) == Log(routine, "call", arguments, 0)
Return(call, result) == [call EXCEPT !.outcome = "return",
                                     !.data = Append(call.data, result)]
Returned(routine) == last.routine = routine /\ last.outcome = "return"

\* every dict that holds, under some of the keys of values_of, a value values_of allows
DictsOver(values_of) ==
    LET keys == DOMAIN values_of
        values == UNION {values_of[k] : k \in keys}
    IN  {d \in UNION {[ks -> values] : ks \in SUBSET keys} :
            \A k \in DOMAIN d : d[k] \in values_of[k]}

\* {**partial_data, **new_data} on the dicts extraction can accumulate
MergeKeys == {"title", "city", "price"}
MergeValues ==
    [key \in MergeKeys |->
        IF key = "price" THEN {PyNum(400000), PyNum(0)}
        ELSE {PyStr(<<"B","o","s","t","o","n">>), PyStr(<<>>)}]
MergeInputs == DictsOver(MergeValues)

InitMerge ==
    /\ user_data = EmptyDict
    /\ store = <<>>
    /\ \E partial_data \in MergeInputs, new_data \in MergeInputs :
            last = Call("merge", <<partial_data, new_data>>)

merge_call ==
    /\ last.routine = "merge" /\ last.outcome = "call"
    /\ last' = Return(last, Merge(last.data[1], last.data[2]))
    /\ UNCHANGED <<user_data, store>>

SpecMerge == InitMerge /\ [][merge_call]_vars

\* validate_property_data on dicts that hold, for each required field, nothing, None,
\* an empty or zero value, or a value
ValidateValues ==
    [key \in SeqToSet(required_fields) |->
        IF key \in NumberKeys THEN {PyNone, PyNum(0), PyNum(90)}
        ELSE {PyNone, PyStr(<<>>), PyStr(<<"f","l","a","t">>)}]
ValidateInputs == DictsOver(ValidateValues)

InitValidate ==
    /\ user_data = EmptyDict
    /\ store = <<>>
    /\ \E property_data \in ValidateInputs : last = Call("validate", <<property_data>>)

validate_call ==
    /\ last.routine = "validate" /\ last.outcome = "call"
    /\ last' = Return(last, validate_property_data(last.data[1]))
    /\ UNCHANGED <<user_data, store>>

SpecValidate == InitValidate /\ [][validate_call]_vars

\* _parse_goal_from_text on one phrase or on two phrases with a space between them
Phrases == { <<"A","D","D">>, <<"n","e","w"," ","p","r","o","p","e","r","t","y">>, <<"L","i","s","t"," ","P","r","o","p","e","r","t","y">>, <<"F","i","n","d">>, <<"l","o","o","k","i","n","g"," ","f","o","r">>,
             <<"f","i","l","t","e","r">>, <<"E","d","i","t">>, <<"m","y"," ","p","r","o","p","e","r","t","i","e","s">>, <<"l","i","s","t","i","n","g">>, <<"h","e","l","l","o">>,
             <<"a","d","d","r","e","s","s">> }
RouterInputs == Phrases \cup {a \o <<" ">> \o b : a \in Phrases, b \in Phrases}

InitRouter ==
    /\ user_data = EmptyDict
    /\ store = <<>>
    /\ \E text \in RouterInputs : last = Call("parse_goal", <<text>>)

parse_goal_call ==
    /\ last.routine = "parse_goal" /\ last.outcome = "call"
    /\ last' = Return(last, parse_goal_from_text(last.data[1]))
    /\ UNCHANGED <<user_data, store>>

SpecRouter == InitRouter /\ [][parse_goal_call]_vars

\* _detect_field_deletions on the empty text, on texts that name no field, and, for
\* every synonym of every field, on a phrase of each family: a deletion verb, a reset
\* to empty, and the two negation keywords
Synonyms(field) == SeqToSet(field_synonyms(field))
DeletionTexts(field) ==
    {deletion_keywords[i] \o <<" ","t","h","e"," ">> \o s : i \in 1..Len(deletion_keywords),
                                              s \in Synonyms(field)}
ResetTexts(field) ==
    {<<"P","l","e","a","s","e"," "," ">> \o reset_keywords[i] \o Sp \o s \o <<" ","t","o"," ","n","o","n","e">> :
        i \in 1..Len(reset_keywords), s \in Synonyms(field)}
NoTexts(field) == {<<"I","t"," ","h","a","s"," "," ","N","O"," ">> \o s \o <<" ","a","t"," ","a","l","l">> : s \in Synonyms(field)}
WithoutTexts(field) == {<<"w","i","t","h","o","u","t"," ">> \o s : s \in Synonyms(field)}
ThreeFields == <<"R","e","m","o","v","e"," ","p","a","r","k","i","n","g"," ","a","n","d"," ","d","e","l","e","t","e"," ","t","h","e"," ","D","e","s","c","r","i","p","t","i","o","n",","," ","t","h","e","r","e"," ","i","s"," "," ","n","o"," ","l","i","f","t">>
PlainTexts == { <<>>, <<" "," "," ">>, <<"h","e","l","l","o">>, <<"p","a","r","k","i","n","g"," ","f","o","r"," ","t","w","o"," ","c","a","r","s">> }
DetectInputs ==
    PlainTexts \cup {ThreeFields}
    \cup UNION {DeletionTexts(DeletionFields[i]) \cup ResetTexts(DeletionFields[i])
                \cup NoTexts(DeletionFields[i]) \cup WithoutTexts(DeletionFields[i]) :
                i \in 1..Len(DeletionFields)}

InitDetect ==
    /\ user_data = EmptyDict
    /\ store = <<>>
    /\ \E text \in DetectInputs : last = Call("detect_field_deletions", <<text>>)

detect_call ==
    /\ last.routine = "detect_field_deletions" /\ last.outcome = "call"
    /\ last' = Return(last, detect_field_deletions(last.data[1]))
    /\ UNCHANGED <<user_data, store>>

SpecDetect == InitDetect /\ [][detect_call]_vars

----------------------------------------------------------------------------
(* the claims                                                              *)

\* C1: merging accumulated fields A with newly extracted fields B yields M with
\* M[k] = B[k] for every key of B, M[k] = A[k] for every key of A that B lacks, no
\* other key, and M = A when B is empty.
C1_MergeIsRightBiased ==
    Returned("merge") =>
        LET A == last.data[1]
            B == last.data[2]
            M == last.data[3]
        IN  /\ \A k \in DOMAIN B : M[k] = B[k]
            /\ \A k \in DOMAIN A \ DOMAIN B : M[k] = A[k]
            /\ DOMAIN M = DOMAIN A \cup DOMAIN B
            /\ (B = EmptyDict => M = A)

\* a merge where B overwrites a key of A with another value and A keeps a key B lacks
C1_Witness ==
    /\ Returned("merge")
    /\ LET A == last.data[1]
           B == last.data[2]
           M == last.data[3]
       IN  /\ \E k \in DOMAIN A \cap DOMAIN B : A[k] # B[k] /\ M[k] = B[k]
           /\ \E k \in DOMAIN A \ DOMAIN B : M[k] = A[k]
           /\ \E k \in DOMAIN B \ DOMAIN A : M[k] = B[k]

\* the canonical order of the required fields, as the specification lists it
CanonicalFieldOrder == <<"title", "property_type", "city", "area", "price">>
CanonicalIndex(field) == CHOOSE i \in 1..Len(CanonicalFieldOrder) : CanonicalFieldOrder[i] = field

\* missing_fields lists exactly the fields of `failing`, in the canonical order
ListsInCanonicalOrder(missing_fields, failing) ==
    /\ SeqToSet(missing_fields) = failing
    /\ \A i, j \in 1..Len(missing_fields) :
            i < j => CanonicalIndex(missing_fields[i]) < CanonicalIndex(missing_fields[j])

\* what validation returned for D, given the required fields that fail the test
ValidateContract(failing) ==
    LET D == last.data[1]
        is_valid == last.data[2][1]
        missing_fields == last.data[2][2]
    IN  /\ is_valid = (failing = {})
        /\ ListsInCanonicalOrder(missing_fields, failing)
        /\ last.data[2][3] = D

PresentNonEmptyNonNull(D, f) ==
    f \in DOMAIN D /\ D[f] # PyNone /\ D[f] # PyStr(<<>>)

PresentAndTruthy(D, f) ==
    f \in DOMAIN D /\ D[f] \notin {PyNone, PyStr(<<>>), PyNum(0), PyBool(FALSE)}

\* C2 (as stated): is_valid exactly when each required field is present with a
\* non-empty, non-null value; missing_fields lists the failing fields in the canonical
\* order; D is returned unmodified.
C2_AsStated ==
    Returned("validate") =>
        ValidateContract({f \in SeqToSet(CanonicalFieldOrder) :
                            ~PresentNonEmptyNonNull(last.data[1], f)})

\* C2 (amended): is_valid exactly when each required field is present with a truthy
\* value, that is non-null, non-empty and non-zero; missing_fields lists the failing
\* fields in the canonical order; D is returned unmodified.
C2_ValidateByTruthiness ==
    Returned("validate") =>
        ValidateContract({f \in SeqToSet(CanonicalFieldOrder) :
                            ~PresentAndTruthy(last.data[1], f)})

\* a dict with every required field present and non-null, the area zero: not valid,
\* and area is the one missing field
C2_Witness ==
    /\ Returned("validate")
    /\ DOMAIN last.data[1] = SeqToSet(CanonicalFieldOrder)
    /\ \A f \in DOMAIN last.data[1] : PresentNonEmptyNonNull(last.data[1], f)
    /\ last.data[1]["area"] = PyNum(0)
    /\ last.data[2][1] = FALSE
    /\ last.data[2][2] = <<"area">>

\* the goals in the order the router tests them, and a keyword of the goal occurring
\* in the text whatever the case of the text
GoalOrder == <<"register", "search", "filter", "edit", "list">>
KeywordsOf(goal) ==
    CASE goal = "register" -> register_keywords
      [] goal = "search"   -> search_keywords
      [] goal = "filter"   -> filter_keywords
      [] goal = "edit"     -> edit_keywords
      [] goal = "list"     -> list_keywords
Occurs(goal, text) == \E keyword \in KeywordsOf(goal) : Contains(Lower(text), keyword)

\* C4: the router returns the first goal, in the order register, search, filter, edit,
\* list, that has a keyword occurring as a case-insensitive substring of the text, and
\* none when no keyword occurs; register wins over search.
C4_RouterPrecedence ==
    Returned("parse_goal") =>
        LET text == last.data[1]
            goal == last.data[2]
        IN  /\ \A i \in 1..Len(GoalOrder) :
                    goal = GoalOrder[i] <=>
                        /\ Occurs(GoalOrder[i], text)
                        /\ \A j \in 1..(i - 1) : ~Occurs(GoalOrder[j], text)
            /\ goal = NoGoal <=> \A i \in 1..Len(GoalOrder) : ~Occurs(GoalOrder[i], text)
            /\ (Occurs("register", text) /\ Occurs("search", text)) => goal = "register"

\* a text with a search keyword before a register keyword in capitals: register
C4_Witness ==
    /\ Returned("parse_goal")
    /\ last.data[1] = <<"F","i","n","d"," ","A","D","D">>
    /\ last.data[2] = "register"

----------------------------------------------------------------------------
(* the claims about a conversation: one message handled in a given state    *)

InState(state) == ~AwaitsGoal(user_data) /\ CurrentState(user_data) = state

\* handle_text_message or handle_voice_message dispatches `text` to the routine of the
\* session's state, with the answers the routine gets
Turn(text, reply, db_ok, read_ok) == Dispatch(text, reply, NoReply, db_ok, read_ok)

Extracted(reply) == IF PropertyInfo[reply] = <<>> THEN EmptyDict ELSE PropertyInfo[reply][1]
Covers(D) == \A f \in SeqToSet(CanonicalFieldOrder) : PresentAndTruthy(D, f)
History(ud) == UdGet(ud, "conversation_history", <<>>)
EditableColumns == Columns \ {"id", "user_id"}
OwnedByMe(property_id) ==
    /\ Exists(store, property_id)
    /\ get_property(store, property_id)["user_id"] = PyNum(Me)

\* the cleared value of a field: None, and False for a boolean field
Cleared(f) == IF f \in {"parking", "elevator", "storage"} THEN PyBool(FALSE) ELSE PyNone

\* C3: in one editing turn whose update reaches the store, every field the deletion
\* detector flags ends with its cleared value in the selected listing, whatever the
\* extraction proposed for it, and every other extracted field ends with the
\* extracted value.
C3_DeletionWins ==
    [][(/\ InState(STATE_EDIT)
        /\ last'.routine = "edit"
        /\ last'.outcome \in {"updated", "raised_after_update"})
       => \A text \in Conversation.texts, reply \in Conversation.property_replies,
             read_ok \in BOOLEAN :
            Turn(text, reply, TRUE, read_ok)
            => LET row == get_property(store', EditingId(user_data))
                   flagged == DOMAIN TextFacts[text].deletions
               IN  /\ \A f \in flagged : row[f] = Cleared(f) /\ last'.data[f] = Cleared(f)
                   /\ \A f \in (DOMAIN Extracted(reply) \ flagged) \cap EditableColumns :
                        row[f] = Extracted(reply)[f]]_vars

\* an update that carried a title, so the extraction answered, and that cleared the
\* parking and the description the same extraction proposes
C3_Witness ==
    /\ last.routine = "edit" /\ last.outcome = "updated"
    /\ "title" \in DOMAIN last.data
    /\ last.data["parking"] = PyBool(FALSE)
    /\ last.data["description"] = PyNone
    /\ LET row == get_property(store, last.id)
       IN  /\ row # PyNone
           /\ row["title"] = PyStr(<<"C","o","z","y"," ","F","l","a","t">>)
           /\ row["parking"] = PyBool(FALSE)
           /\ row["description"] = PyNone

\* what C5 calls rejected: the state and the selected listing are as before
SelectionRejected ==
    /\ CurrentState(user_data') = CurrentState(user_data)
    /\ EditingId(user_data') = EditingId(user_data)

\* C5 (as stated): selecting a listing that is not among the session's candidate ids
\* is rejected, even if the caller owns it.
C5_AsStated ==
    [][\A property_id \in TwoListings.ids, db_ok \in BOOLEAN :
            (/\ select_edit(property_id, db_ok)
             /\ property_id \notin SeqToSet(AllowedIds(user_data)))
            => SelectionRejected]_vars

\* C5 (amended): when the session holds a non-empty list of candidate ids, selecting a
\* listing that is not in it is rejected, even if the caller owns it.
C5_RejectedOutsideActiveCandidates ==
    [][\A property_id \in TwoListings.ids, db_ok \in BOOLEAN :
            (/\ select_edit(property_id, db_ok)
             /\ AllowedIds(user_data) # <<>>
             /\ property_id \notin SeqToSet(AllowedIds(user_data)))
            => SelectionRejected]_vars

\* the caller asked for a listing of their own that the latest results did not hold
C5_Witness ==
    /\ last.routine = "select_edit" /\ last.outcome = "not_in_results"
    /\ OwnedByMe(last.id)
    /\ AllowedIds(user_data) # <<>>
    /\ last.id \notin SeqToSet(AllowedIds(user_data))
    /\ EditingId(user_data) # last.id

\* C6: selecting a listing that does not exist or that another user owns leaves every
\* session variable unchanged.
C6_ForeignSelectionChangesNothing ==
    [][\A property_id \in Conversation.ids, db_ok \in BOOLEAN :
            (select_edit(property_id, db_ok) /\ ~OwnedByMe(property_id))
            => user_data' = user_data]_vars

\* the caller, with candidates listed, asked for a listing another user owns
C6_Witness ==
    /\ last.routine = "select_edit" /\ last.outcome = "not_yours"
    /\ Exists(store, last.id) /\ ~OwnedByMe(last.id)
    /\ last.id \in SeqToSet(AllowedIds(user_data))
    /\ CurrentState(user_data) = STATE_EDIT_SELECTION

\* C7: in registering, an utterance with a non-empty extraction is merged into the
\* accumulated fields; the state stays registering if a required field fails the
\* validation and becomes confirming if none does; no utterance, typed or spoken,
\* recognized or not, leads from registering to any other state.
C7_RegisterTurn ==
    [][/\ (InState(STATE_REGISTER) /\ last'.routine = "register")
           => \A text \in Conversation.texts, reply \in Conversation.property_replies :
                Turn(text, reply, TRUE, TRUE)
                => LET A == PartialData(user_data)
                       B == Extracted(reply)
                       M == PartialData(user_data')
                   IN  /\ CurrentState(user_data') \in {STATE_REGISTER, STATE_CONFIRM}
                       /\ B # EmptyDict =>
                            /\ DOMAIN M = DOMAIN A \cup DOMAIN B
                            /\ \A k \in DOMAIN B : M[k] = B[k]
                            /\ \A k \in DOMAIN A \ DOMAIN B : M[k] = A[k]
                            /\ ~Covers(M) => CurrentState(user_data') = STATE_REGISTER
                            /\ Covers(M) => CurrentState(user_data') = STATE_CONFIRM
       /\ (InState(STATE_REGISTER) /\ last'.routine = "voice")
           => CurrentState(user_data') = STATE_REGISTER]_vars

\* a turn that extracted something, with the title still missing: still registering
C7_Witness ==
    /\ last.routine = "register" /\ last.outcome = "missing_info"
    /\ InState(STATE_REGISTER)
    /\ last.data # EmptyDict
    /\ \A k \in DOMAIN last.data : PartialData(user_data)[k] = last.data[k]
    /\ "title" \notin DOMAIN PartialData(user_data)

\* C8: over registering and confirming turns that neither reset the session nor
\* select a goal, a key of the accumulated fields stays, and its value changes only on
\* a turn whose extraction holds the key; so registering ends, for confirming, on the
\* first turn at which the fields of all turns together cover the required fields.
C8_NothingLost ==
    [][LET A == PartialData(user_data)
           M == PartialData(user_data')
           Kept(B) == \A k \in DOMAIN A :
                            k \in DOMAIN M /\ (M[k] # A[k] => k \in DOMAIN B)
       IN  /\ (InState(STATE_REGISTER) /\ last'.routine = "register")
               => \A text \in Conversation.texts,
                     reply \in Conversation.property_replies :
                    Turn(text, reply, TRUE, TRUE)
                    => /\ Kept(Extracted(reply))
                       /\ ~Covers(A)
                       /\ CurrentState(user_data') = STATE_CONFIRM <=> Covers(M)
           /\ (/\ InState(STATE_CONFIRM)
               /\ last'.routine = "confirm"
               /\ CurrentState(user_data') = STATE_CONFIRM)
               => \A text \in Conversation.texts,
                     reply \in Conversation.property_replies,
                     db_ok \in BOOLEAN, read_ok \in BOOLEAN :
                    Turn(text, reply, db_ok, read_ok) => Kept(Extracted(reply))]_vars

\* confirming was reached on the second turn, with fields the second turn did not give
C8_Witness ==
    /\ last.routine = "register" /\ last.outcome = "confirm_data"
    /\ InState(STATE_CONFIRM)
    /\ Len(History(user_data)) = 2
    /\ Covers(PartialData(user_data))
    /\ ~Covers(last.data)
    /\ \A k \in DOMAIN last.data : PartialData(user_data)[k] = last.data[k]

\* the reply holds one of confirm, yes, submit, ok, correct, save; one of cancel, no,
\* abort, stop
Affirmative(text) == TextFacts[text].affirmative
Negative(text) == TextFacts[text].negative

\* one listing more, owned by the caller, under a fresh id, with the accumulated fields
Persisted(A) ==
    /\ Len(store') = Len(store) + 1
    /\ SubSeq(store', 1, Len(store)) = store
    /\ LET row == store'[Len(store')]
       IN  /\ row["user_id"] = PyNum(Me)
           /\ row["id"].val \notin Ids(store)
           /\ \A k \in DOMAIN A \cap EditableColumns : row[k] = A[k]

\* C9 (as stated): in confirming, an affirmative reply persists one listing of the
\* replying user with the accumulated fields, and the session is then cleared, its
\* state awaiting a goal.
C9_AsStated ==
    [][(InState(STATE_CONFIRM) /\ last'.routine = "confirm")
       => \A text \in Conversation.texts, reply \in Conversation.property_replies,
             db_ok \in BOOLEAN, read_ok \in BOOLEAN :
            (Affirmative(text) /\ Turn(text, reply, db_ok, read_ok))
            => /\ Persisted(PartialData(user_data))
               /\ user_data' = ClearedSession]_vars

\* C9 (amended): in confirming, an affirmative reply persists one listing of the
\* replying user with the accumulated fields and then clears the session, its state
\* awaiting a goal, when neither the insert nor the read-back of the store raises;
\* when the insert raises, no listing is created and the session is as before; when
\* the read-back raises, the listing is persisted and the session is as before.
C9_AffirmativePersists ==
    [][(InState(STATE_CONFIRM) /\ last'.routine = "confirm")
       => \A text \in Conversation.texts, reply \in Conversation.property_replies,
             db_ok \in BOOLEAN, read_ok \in BOOLEAN :
            (Affirmative(text) /\ Turn(text, reply, db_ok, read_ok))
            => /\ db_ok => Persisted(PartialData(user_data))
               /\ ~db_ok => store' = store
               /\ user_data' = IF db_ok /\ read_ok THEN ClearedSession ELSE user_data]_vars

\* the listing just saved is the caller's, holds what was accumulated over two turns,
\* and the session is cleared
C9_Witness ==
    /\ last.routine = "confirm" /\ last.outcome = "saved"
    /\ user_data = ClearedSession
    /\ Covers(last.data)
    /\ OwnedByMe(last.id)
    /\ \A k \in DOMAIN last.data : get_property(store, last.id)[k] = last.data[k]

\* C10: in confirming, a negative reply that is not affirmative resets the session to
\* awaiting a goal with nothing else in it, and the store is as before.
C10_NegativeResets ==
    [][(InState(STATE_CONFIRM) /\ last'.routine = "confirm")
       => \A text \in Conversation.texts, reply \in Conversation.property_replies,
             db_ok \in BOOLEAN, read_ok \in BOOLEAN :
            (/\ Negative(text) /\ ~Affirmative(text)
             /\ Turn(text, reply, db_ok, read_ok))
            => /\ user_data' = ClearedSession
               /\ store' = store]_vars

\* the confirmation was cancelled: nothing is left of the session, nothing was saved
C10_Witness ==
    /\ last.routine = "confirm" /\ last.outcome = "cancelled"
    /\ user_data = ClearedSession
    /\ store = <<>>

\* C11: in confirming, a reply that is neither affirmative nor negative, a deletion
\* phrase included, leaves the state confirming and the store as it is; it merges
\* what was extracted into the accumulated fields, or changes nothing in the session
\* when nothing was extracted; the next reply is handled in confirming again.
C11_OtherReplyKeepsConfirming ==
    [][(InState(STATE_CONFIRM) /\ last'.routine = "confirm")
       => \A text \in Conversation.texts, reply \in Conversation.property_replies,
             db_ok \in BOOLEAN, read_ok \in BOOLEAN :
            (/\ ~Affirmative(text) /\ ~Negative(text)
             /\ Turn(text, reply, db_ok, read_ok))
            => LET A == PartialData(user_data)
                   B == Extracted(reply)
                   M == PartialData(user_data')
               IN  /\ ~AwaitsGoal(user_data')
                   /\ CurrentState(user_data') = STATE_CONFIRM
                   /\ store' = store
                   /\ B = EmptyDict => user_data' = user_data
                   /\ B # EmptyDict =>
                        /\ DOMAIN M = DOMAIN A \cup DOMAIN B
                        /\ \A k \in DOMAIN B : M[k] = B[k]
                        /\ \A k \in DOMAIN A \ DOMAIN B : M[k] = A[k]
                        /\ \A k \in DOMAIN user_data \ {"partial_data"} :
                                k \in DOMAIN user_data' /\ user_data'[k] = user_data[k]]_vars

\* an other reply in confirming whose extraction was merged: still confirming, the
\* fields of the earlier turns kept, nothing saved
C11_Witness ==
    /\ last.routine = "confirm" /\ last.outcome = "merged"
    /\ InState(STATE_CONFIRM)
    /\ last.data # EmptyDict
    /\ \A k \in DOMAIN last.data : PartialData(user_data)[k] = last.data[k]
    /\ DOMAIN PartialData(user_data) # DOMAIN last.data
    /\ store = <<>>

\* C12: when add_property raises during finalize, the session is as before, so the
\* state is still confirming and the accumulated fields hold every value, and the
\* store is as before: a later affirmative reply finalizes the same fields.
C12_FailedCreateKeepsSession ==
    [][(InState(STATE_CONFIRM) /\ last'.routine = "confirm")
       => \A text \in Conversation.texts, reply \in Conversation.property_replies,
             read_ok \in BOOLEAN :
            (Affirmative(text) /\ Turn(text, reply, FALSE, read_ok))
            => /\ user_data' = user_data
               /\ store' = store
               /\ last'.data = PartialData(user_data')]_vars

\* the insert of a complete listing raised: still confirming, with the fields that
\* were handed to the store, and nothing saved
C12_Witness ==
    /\ last.routine = "confirm" /\ last.outcome = "save_failed"
    /\ InState(STATE_CONFIRM)
    /\ Covers(PartialData(user_data))
    /\ last.data = PartialData(user_data)
    /\ store = <<>>

\* C13 (as stated): in editing with a listing selected and a non-empty update, once
\* the update is attempted the session ends without the selected listing and without
\* the candidate ids, its state awaiting a goal, whether the update succeeds, returns
\* false or raises.
C13_AsStated ==
    [][(InState(STATE_EDIT) /\ last'.routine = "edit")
       => \A text \in Conversation.texts, reply \in Conversation.property_replies,
             db_ok \in BOOLEAN, read_ok \in BOOLEAN :
            (/\ EditingId(user_data) # 0
             /\ EditUpdates(text, reply) # EmptyDict
             /\ Turn(text, reply, db_ok, read_ok))
            => /\ "editing_property_id" \notin DOMAIN user_data'
               /\ "available_edit_property_ids" \notin DOMAIN user_data'
               /\ CurrentState(user_data') = STATE_WAITING_FOR_GOAL]_vars

FilterTurn(text, reply, db_ok) == Dispatch(text, NoReply, reply, db_ok, TRUE)

C15_ResetClearsEverything ==
    [][(start \/ cancel)
       => /\ DOMAIN user_data' = {"state"}
          /\ user_data'["state"] = STATE_WAITING_FOR_GOAL
          /\ store' = store]_vars

\* a cancel that left the editing state, with a listing in the store
C15_Witness ==
    /\ last.routine = "cancel"
    /\ last.data = Left("state" :> STATE_EDIT)
    /\ DOMAIN user_data = {"state"}
    /\ store # <<>>

\* the routines an utterance is processed by once it is not a goal selection
ProcessingRoutines == {"register", "search", "filter", "edit_filter", "edit", "confirm"}

\* C16 (as stated): once a goal is set, no utterance is passed to the goal router
\* until cancel, start or a successful finalize resets the session, which are the
\* steps that unset the goal.
C16_AsStated ==
    [][("goal" \in DOMAIN user_data) => last'.routine # "router"]_vars

\* C16 (amended): an utterance is passed to the goal router exactly when the state is
\* awaiting a goal or no goal is set; with a goal set and another state, it is
\* processed by the routine of the state.  A goal that is still set does not keep
\* the router away once the state is back to awaiting a goal.
C16_RouterExactlyWhenAwaitingGoal ==
    [][LET idle == \/ CurrentState(user_data) = STATE_WAITING_FOR_GOAL
                   \/ "goal" \notin DOMAIN user_data
       IN  /\ last'.routine = "router" => idle
           /\ last'.routine \in ProcessingRoutines => ~idle]_vars

\* the router was consulted, and matched no goal, in a session whose goal is set
C16_Witness ==
    /\ last.routine = "router" /\ last.outcome = "no_goal_warning"
    /\ "goal" \in DOMAIN user_data
    /\ CurrentState(user_data) = STATE_WAITING_FOR_GOAL

\* the state each goal enters: as claimed, by a click on the menu, by a routed text
StatedEntry ==
    [register |-> STATE_REGISTER, search |-> STATE_SEARCH, filter |-> STATE_FILTER,
     edit |-> STATE_EDIT_FILTER]
MenuEntry == StatedEntry
TextEntry == [StatedEntry EXCEPT !["edit"] = STATE_EDIT]

EmptyReplies == {reply \in Conversation.property_replies : Extracted(reply) = EmptyDict}

\* C18: in registering and in editing, an utterance for which nothing is extracted
\* and, in editing, no deletion is detected, changes neither the state, nor the
\* accumulated fields, nor the selected listing, nor any record of the store.
C18_NothingExtractedChangesNothing ==
    [][((InState(STATE_REGISTER) \/ InState(STATE_EDIT))
        /\ last'.routine \in {"register", "edit"}) =>
         \A text \in Conversation.texts, reply \in EmptyReplies,
            db_ok \in BOOLEAN, read_ok \in BOOLEAN :
             (/\ InState(STATE_EDIT) => TextFacts[text].deletions = EmptyDict
              /\ Turn(text, reply, db_ok, read_ok))
             => /\ CurrentState(user_data') = CurrentState(user_data)
                /\ PartialData(user_data') = PartialData(user_data)
                /\ ("editing_property_id" \in DOMAIN user_data')
                     = ("editing_property_id" \in DOMAIN user_data)
                /\ EditingId(user_data') = EditingId(user_data)
                /\ store' = store]_vars

\* an utterance was not understood while a listing of the store was being edited
C18_Witness ==
    /\ last.routine = "edit" /\ last.outcome = "not_understood"
    /\ InState(STATE_EDIT)
    /\ Exists(store, EditingId(user_data))

\* the step listed candidates for editing: process_edit_filter_input did, or the
\* router did on a typed or spoken edit
ListsCandidates ==
    \/ last'.routine = "edit_filter" /\ last'.outcome \in {"all_listed", "results"}
    \/ /\ last'.routine = "router" /\ last'.outcome = "edit"
       /\ get_user_properties(store, Me) # <<>>

\* the listings the step handed to _send_properties_for_editing
Candidates ==
    IF last'.outcome = "results" THEN search_properties(store, last'.data)
    ELSE get_user_properties(store, Me)

\* C19 (as stated): after every listing of edit candidates, the recorded candidate
\* ids are exactly the ids of the listings shown in that listing; no id of a listing
\* beyond the display limit is recorded.
C19_AsStated ==
    [][ListsCandidates
       => SeqToSet(AllowedIds(user_data')) = Ids(ShownForEditing(Candidates))]_vars

\* C20: in the filter-first and the selection state of an edit, every id recorded
\* as a candidate is the id of a listing the caller owns at that time, for the
\* show-everything phrase and for filter criteria alike, whatever the extraction
\* returned, an owner id included.
C20_CandidatesAreOwned ==
    [][(InState(STATE_EDIT_FILTER) \/ InState(STATE_EDIT_SELECTION)) =>
         \A text \in ManyListings.texts, reply \in ManyListings.filter_replies,
            db_ok \in BOOLEAN :
             FilterTurn(text, reply, db_ok)
             => \/ AllowedIds(user_data') = AllowedIds(user_data)
                \/ \A property_id \in SeqToSet(AllowedIds(user_data')) :
                       OwnedByMe(property_id)]_vars

\* candidates were listed for criteria whose extraction named another user as the
\* owner, while the store holds a listing of that user
C20_Witness ==
    /\ last.routine = "edit_filter" /\ last.outcome = "results"
    /\ last.data = DictSet(SearchFilters[OwnerReply], "user_id", PyNum(Me))
    /\ ToStr(SearchFilters[OwnerReply]["user_id"]) = ToStr(PyNum(OtherUser))
    /\ AllowedIds(user_data) # <<>>
    /\ \E i \in 1..Len(store) : store[i]["user_id"] = PyNum(OtherUser)

\* the listing being edited, before and after the step
EditedRow == get_property(store, EditingId(user_data))
EditedRowAfter == get_property(store', EditingId(user_data))

\* a listing with parking is selected for editing
EditingWithParking ==
    /\ InState(STATE_EDIT)
    /\ EditedRow # PyNone
    /\ EditedRow["parking"] = PyBool(TRUE)

ReachedStore == last'.routine = "edit" /\ last'.outcome \in {"updated", "raised_after_update"}

TableFields == {"description", "address", "neighborhood", "title",
                "parking", "elevator", "storage"}
BooleanFields == {"parking", "elevator", "storage"}

\* C22: the result of the deletion detector has only keys of the fixed table; a
\* flagged boolean field maps to False and a flagged text field to None, whichever
\* family of phrases matched; one utterance can flag several fields; the empty text
\* yields the empty result.
C22_DetectorResult ==
    Returned("detect_field_deletions") =>
        LET text == last.data[1]
            removals == last.data[2]
        IN  /\ DOMAIN removals \subseteq TableFields
            /\ \A f \in DOMAIN removals :
                   removals[f] = IF f \in BooleanFields THEN PyBool(FALSE) ELSE PyNone
            /\ \A f \in TableFields :
                   text \in DeletionTexts(f) \cup ResetTexts(f) => f \in DOMAIN removals
            /\ \A f \in BooleanFields :
                   text \in NoTexts(f) \cup WithoutTexts(f) => f \in DOMAIN removals
            /\ text = ThreeFields => DOMAIN removals = {"parking", "description", "elevator"}
            /\ text = <<>> => removals = EmptyDict

\* one utterance flagged a boolean field by a deletion verb, a text field by a
\* deletion verb and a boolean field by a negation
C22_Witness ==
    /\ Returned("detect_field_deletions")
    /\ last.data[1] = ThreeFields
    /\ last.data[2] = [parking |-> PyBool(FALSE), description |-> PyNone,
                       elevator |-> PyBool(FALSE)]

\* C23: for every synonym of every boolean field, a text containing `no <synonym>`
\* and a text containing `without <synonym>` each flag the field as False; negation
\* phrasing never flags a field that is not boolean.
C23_BothNegationKeywords ==
    Returned("detect_field_deletions") =>
        LET text == last.data[1]
            removals == last.data[2]
        IN  /\ \A f \in BooleanFields : \A s \in Synonyms(f) :
                   (Contains(JoinSplit(Lower(text)), <<"n","o"," ">> \o s)
                    \/ Contains(JoinSplit(Lower(text)), <<"w","i","t","h","o","u","t"," ">> \o s))
                   => f \in DOMAIN removals /\ removals[f] = PyBool(FALSE)
            /\ \A f \in TableFields \ BooleanFields :
                   text \in NoTexts(f) \cup WithoutTexts(f) => f \notin DOMAIN removals

\* `without` flagged the elevator by its second synonym
C23_Witness ==
    /\ Returned("detect_field_deletions")
    /\ last.data[1] = <<"w","i","t","h","o","u","t"," ","l","i","f","t">>
    /\ last.data[2] = [elevator |-> PyBool(FALSE)]

\* how a routine ends when a store call raised and the routine has no handler for it
RaisedOutcomes == {"raised", "raised_after_update"}

\* C24 (as stated): no failure of a collaborator leaves the handler of an utterance
\* as an exception.  The handler of a voice message catches what its routine raises;
\* the handler of a typed message has no handler around its routine, so a routine
\* that ends raised ends the typed handler raised.
C24_AsStated ==
    [][last'.outcome \in RaisedOutcomes => ~handle_text_message(Conversation)]_vars

\* C25: a voice message for which the transcription service is unavailable, or for
\* which the transcription returns no text, leaves the session (state, goal,
\* accumulated fields, selection, and every other key) and the store as they were,
\* in every state.
C25_FailedVoiceChangesNothing ==
    [][(last'.routine = "voice" /\ last'.outcome \in {"unavailable", "not_recognized"})
       => user_data' = user_data /\ store' = store]_vars

\* nothing was recognized while a listing of the store was selected for editing
C25_Witness ==
    /\ last.routine = "voice" /\ last.outcome = "not_recognized"
    /\ InState(STATE_EDIT)
    /\ Exists(store, EditingId(user_data))

C27_AsStated ==
    \A i \in 1..Len(store) :
        /\ \A c \in {"title", "property_type", "city"} :
               store[i][c].kind = "str" /\ store[i][c].val # <<>>
        /\ \A c \in {"area", "price"} :
               store[i][c].kind = "num" /\ store[i][c].val > 0

----------------------------------------------------------------------------
(* database.py called directly, as tests/test_database.py does: a table of  *)
(* at most MaxRows rows of two owners, and every call on it                 *)

MaxRows == 2
StoreOwners == {Me, OtherUser}
StoreIds == 1..(MaxRows + 1)
StoreData ==
    { EmptyDict, OtherListing,
      [title |-> PyStr(<<"V","i","l","l","a">>), rooms |-> PyNum(3), parking |-> PyBool(TRUE)] }
StoreUpdates ==
    { EmptyDict, [price |-> PyNum(5), parking |-> PyNone], [title |-> PyNone],
      [city |-> PyStr(<<"R","o","m","e">>), nickname |-> PyStr(<<"x">>)] }

InitStore ==
    /\ user_data = EmptyDict
    /\ store = <<>>
    /\ last = Log("init", "none", EmptyDict, 0)

add_call ==
    \E user_id \in StoreOwners, property_data \in StoreData :
        /\ Len(store) < MaxRows
        /\ store' = add_property(store, user_id, property_data)
        /\ last' = Log("add_property", "return",
                       [user_id |-> user_id, property_data |-> property_data],
                       NextId(store))
        /\ UNCHANGED user_data

get_call ==
    \E property_id \in StoreIds :
        /\ last' = Log("get_property", "return", get_property(store, property_id),
                       property_id)
        /\ UNCHANGED <<user_data, store>>

update_call ==
    \E property_id \in StoreIds, updates \in StoreUpdates :
        /\ IF ~Exists(store, property_id)
           THEN /\ last' = Log("update_property", "False", updates, property_id)
                /\ UNCHANGED store
           ELSE IF UpdateViolatesNotNull(updates)
           THEN /\ last' = Log("update_property", "raised", updates, property_id)
                /\ UNCHANGED store
           ELSE /\ last' = Log("update_property", "True", updates, property_id)
                /\ store' = update_property(store, property_id, updates)
        /\ UNCHANGED user_data

\* user_id 0 is the call without an owner: delete_property(property_id)
delete_call ==
    \E property_id \in StoreIds, user_id \in StoreOwners \cup {0} :
        /\ IF CanDelete(store, property_id, user_id)
           THEN /\ last' = Log("delete_property", "True", [user_id |-> user_id], property_id)
                /\ store' = delete_property(store, property_id, user_id)
           ELSE /\ last' = Log("delete_property", "False", [user_id |-> user_id], property_id)
                /\ UNCHANGED store
        /\ UNCHANGED user_data

NextStore == add_call \/ get_call \/ update_call \/ delete_call
SpecStore == InitStore /\ [][NextStore]_vars

\* C28: add_property returns an id no existing row has; get_property of that id then
\* returns a row of the given owner that holds every supplied field as supplied; and
\* get_property of an id no row has returns None
C28_AddThenGet ==
    [][/\ last'.routine = "add_property" =>
            LET row == get_property(store', last'.id)
                property_data == last'.data.property_data
            IN  /\ last'.id \notin Ids(store)
                /\ row # PyNone
                /\ row["user_id"] = PyNum(last'.data.user_id)
                /\ \A field \in DOMAIN property_data :
                       row[field] = property_data[field]
       /\ \A property_id \in StoreIds \ Ids(store') :
              get_property(store', property_id) = PyNone]_vars

\* an insert into a table whose earlier row was deleted, so the row count and the
\* largest id differ
C28_Witness ==
    /\ last.routine = "add_property"
    /\ last.data.property_data # EmptyDict
    /\ Len(store) = 2
    /\ last.id = 3
    /\ get_property(store, 1) = PyNone

\* what update_property leaves of the table when it sets the listed attributes of the
\* row property_id to the given values and nothing else
OnlyListedSet(before, after, property_id, updates) ==
    /\ Len(after) = Len(before)
    /\ \A i \in 1..Len(before) :
          IF before[i]["id"] = PyNum(property_id)
          THEN \A c \in Columns :
                   after[i][c] = IF c \in DOMAIN updates THEN updates[c] ELSE before[i][c]
          ELSE after[i] = before[i]

Owns(rows, property_id, user_id) ==
    \E i \in 1..Len(rows) : /\ rows[i]["id"] = PyNum(property_id)
                            /\ rows[i]["user_id"] = PyNum(user_id)

\* C30: delete_property called with an owner removes the row and returns True exactly
\* when a row with that id exists and belongs to that owner, and get_property of the id
\* then returns None; when no row has the id or the row belongs to someone else it
\* returns False and the table is unchanged
C30_DeleteOnlyOwned ==
    [][last'.routine = "delete_property" /\ last'.data.user_id # 0 =>
          IF Owns(store, last'.id, last'.data.user_id)
          THEN /\ last'.outcome = "True"
               /\ get_property(store', last'.id) = PyNone
               /\ store' = SelectSeq(store, LAMBDA p : p["id"] # PyNum(last'.id))
          ELSE /\ last'.outcome = "False"
               /\ store' = store]_vars

\* a delete of an existing row refused to a user who does not own it, beside a row
\* of that user
C30_Witness ==
    /\ last.routine = "delete_property"
    /\ last.outcome = "False"
    /\ last.data.user_id # 0
    /\ Exists(store, last.id)
    /\ ~Owns(store, last.id, last.data.user_id)
    /\ \E i \in 1..Len(store) : store[i]["user_id"] = PyNum(last.data.user_id)

----------------------------------------------------------------------------
(* database.py: the queries, on the tables add_property builds and on one   *)
(* that holds one row more than a query returns                             *)

LargeTable == Registered(<<>>, [i \in 1..(QueryLimit + 1) |-> Me])

QueryFilters ==
    { EmptyDict,
      [city |-> PyStr(<<"P","A","R">>)],
      [city |-> PyStr(<<"p","_","r","i","s">>)],
      [property_type |-> PyStr(<<"a","p","a","r","t","m","e","n","t">>), parking |-> PyBool(FALSE)],
      [parking |-> PyBool(TRUE), elevator |-> PyBool(FALSE)],
      [rooms |-> PyNum(3)],
      [rooms |-> PyNum(0)],
      [min_area |-> PyNum(50), max_price |-> PyNum(100000)],
      [min_price |-> PyNum(1), max_area |-> PyNum(90), neighborhood |-> PyStr(<<>>)],
      [max_price |-> PyNum(0)],
      [user_id |-> PyNum(OtherUser)],
      [user_id |-> PyNum(Me), property_type |-> PyStr(<<"o">>)] }

InitQuery ==
    /\ user_data = EmptyDict
    /\ store \in {<<>>, LargeTable}
    /\ last = Log("init", "none", EmptyDict, 0)

search_call ==
    \E filters \in QueryFilters :
        /\ last' = Log("search_properties", "return",
                       [filters |-> filters, result |-> search_properties(store, filters)],
                       0)
        /\ UNCHANGED <<user_data, store>>

user_properties_call ==
    \E user_id \in StoreOwners :
        /\ last' = Log("get_user_properties", "return",
                       [user_id |-> user_id,
                        result |-> get_user_properties(store, user_id)], 0)
        /\ UNCHANGED <<user_data, store>>

NextQuery == add_call \/ search_call \/ user_properties_call
SpecQuery == InitQuery /\ [][NextQuery]_vars

\* the filter keys the claim names
FilterKeys == {"city", "neighborhood", "property_type", "min_area", "max_area",
               "min_price", "max_price", "rooms", "parking", "elevator", "user_id"}

\* one row against one filter, as the claim words it: texts by containment, bounds
\* inclusive, the others by equality
Satisfies(p, key, value) ==
    CASE key \in {"city", "neighborhood", "property_type"} ->
            p[key].kind = "str" /\ Contains(Lower(p[key].val), Lower(ToStr(value)))
      [] key = "min_area"  -> p["area"].val >= value.val
      [] key = "max_area"  -> p["area"].val <= value.val
      [] key = "min_price" -> p["price"].val >= value.val
      [] key = "max_price" -> p["price"].val <= value.val
      [] key \in {"rooms", "user_id"} -> p[key] = value
      [] key \in {"parking", "elevator"} -> p[key] = value

\* the filters the query applies: those with a truthy value, and parking and elevator
\* with any value but None
Applied(filters) ==
    {key \in FilterKeys \cap DOMAIN filters :
        IF key \in {"parking", "elevator"} THEN filters[key] # PyNone
        ELSE Truthy(filters[key])}

\* one row against one applied filter: a text filter is a LIKE pattern
SatisfiesLike(p, key, value) ==
    IF key \in {"city", "neighborhood", "property_type"}
    THEN p[key].kind = "str"
         /\ LikeMatch(<<"%">> \o Lower(ToStr(value)) \o <<"%">>, Lower(p[key].val))
    ELSE Satisfies(p, key, value)

Position(rows, p) == CHOOSE i \in 1..Len(rows) : rows[i] = p

\* result holds rows of the table, each once, the later inserted first
MostRecentFirst(rows, result) ==
    /\ \A i \in 1..Len(result) : result[i] \in SeqToSet(rows)
    /\ \A i, j \in 1..Len(result) :
           i < j => Position(rows, result[i]) > Position(rows, result[j])

\* result is the most recent `limit` of the rows in wanted, or all of them
MostRecentOf(rows, wanted, result, limit) ==
    /\ MostRecentFirst(rows, result)
    /\ SeqToSet(result) \subseteq wanted
    /\ Len(result) = IF Cardinality(wanted) < limit THEN Cardinality(wanted) ELSE limit
    /\ \A p \in wanted \ SeqToSet(result) : \A q \in SeqToSet(result) :
           Position(rows, p) < Position(rows, q)

\* C31 as stated: search_properties returns exactly the rows that satisfy every supplied
\* filter, most recent first, and get_user_properties exactly the rows of the owner
C31_AsStated ==
    [][/\ last'.routine = "search_properties" =>
            LET filters == last'.data.filters
                wanted == {p \in SeqToSet(store) :
                              \A key \in DOMAIN filters : Satisfies(p, key, filters[key])}
            IN  /\ MostRecentFirst(store, last'.data.result)
                /\ SeqToSet(last'.data.result) = wanted
       /\ last'.routine = "get_user_properties" =>
            /\ MostRecentFirst(store, last'.data.result)
            /\ SeqToSet(last'.data.result) =
                   {p \in SeqToSet(store) : p["user_id"] = PyNum(last'.data.user_id)}]_vars

\* C31: search_properties returns the QueryLimit most recent of the rows that satisfy
\* every applied filter (a filter with a falsy value is not applied; a text filter is a
\* LIKE pattern), most recent first, and get_user_properties the QueryLimit most recent
\* rows of the owner in the same order
C31_QueriesReturnMostRecentMatches ==
    [][/\ last'.routine = "search_properties" =>
            LET filters == last'.data.filters
                wanted == {p \in SeqToSet(store) :
                              \A key \in Applied(filters) :
                                  SatisfiesLike(p, key, filters[key])}
            IN  MostRecentOf(store, wanted, last'.data.result, QueryLimit)
       /\ last'.routine = "get_user_properties" =>
            MostRecentOf(store,
                         {p \in SeqToSet(store) : p["user_id"] = PyNum(last'.data.user_id)},
                         last'.data.result, QueryLimit)]_vars

\* a search with a filter that returned one row of a table of two
C31_Witness ==
    /\ last.routine = "search_properties"
    /\ Len(store) = 2
    /\ Len(last.data.result) = 1
    /\ last.data.filters # EmptyDict

\* C32: in every session state, for every recognized text and every answer of the
\* services, the dispatch of the voice handler on the state it read leads to the same
\* session and the same store as the dispatch of the text handler on that text: both
\* run the same routine (a step that neither the router nor a routine logged is a step
\* of neither dispatch)
C32_VoiceDispatchesAsText ==
    [][LET current_state == IF Suspended THEN last.data["state"]
                            ELSE CurrentState(user_data)
       IN  last'.routine \in ProcessingRoutines \cup {"router"} =>
           \A text \in Overlap.transcripts, db_ok \in BOOLEAN :
             \A read_ok \in ReadsIn(Overlap, current_state),
                property_reply \in PropertyRepliesIn(Overlap, current_state),
                filter_reply \in FilterRepliesIn(Overlap, current_state) :
                DispatchOn(current_state, text, property_reply, filter_reply,
                           db_ok, read_ok)
                <=> Dispatch(text, property_reply, filter_reply, db_ok, read_ok)]_vars

\* a voice message received while a selected listing is being edited waits for its
\* transcription
C32_Witness ==
    /\ Suspended
    /\ last.data["state"] = STATE_EDIT
    /\ EditingId(user_data) # 0
    /\ store # <<>>

\* C33 (as stated): in every reachable session in confirming the accumulated fields
\* hold a non-empty value for each of the five required fields, so that an affirmative
\* reply persists no listing that validation reports as incomplete.
C33_AsStated ==
    CurrentState(user_data) = STATE_CONFIRM =>
        /\ validate_property_data(PartialData(user_data))[1]
        /\ \A field \in SeqToSet(required_fields) :
               field \in DOMAIN PartialData(user_data)

C36_AsStated ==
    [][last'.routine = "edit" =>
          /\ Len(store') = Len(store)
          /\ \A i \in 1..Len(store) : /\ store'[i]["id"] = store[i]["id"]
                                      /\ store'[i]["user_id"] = store[i]["user_id"]]_vars

\* C35 (as stated): no action of the conversing user (an utterance, a goal selection,
\* a select-to-edit, view or confirm-delete callback) changes or deletes a listing that
\* another user owns.
C35_AsStated ==
    [][last'.routine # "other_user" =>
          \A i \in 1..Len(store) :
              store[i]["user_id"] # PyNum(Me) => store[i] \in SeqToSet(store')]_vars

\* the last step entered the edit flow by goal selection: the menu click or the router
EnteredEditFlow ==
    /\ last.routine \in {"goal_selection", "router"}
    /\ last.outcome = "edit"

\* C37 (as stated): a listing is modified by an editing utterance only if the user
\* selected it after the most recent entry into the edit flow; in particular the
\* utterance that follows the entry at once, with no selection in between, modifies
\* no listing, and a select-to-edit that follows the entry at once is not tested
\* against candidates left over from an earlier flow.
C37_AsStated ==
    [][EnteredEditFlow =>
          /\ last'.routine = "edit" => store' = store
          /\ last'.routine = "select_edit" => last'.outcome # "not_in_results"]_vars

\* C38 (as stated): a select-to-edit received in awaiting_goal, registering,
\* confirming, searching or filtering leaves the state and the accumulated fields of
\* the session unchanged.
C38_AsStated ==
    [][/\ last'.routine = "select_edit"
       /\ CurrentState(user_data) \in {STATE_WAITING_FOR_GOAL, STATE_REGISTER, STATE_CONFIRM,
                                      STATE_SEARCH, STATE_FILTER}
       => /\ CurrentState(user_data') = CurrentState(user_data)
          /\ PartialData(user_data') = PartialData(user_data)]_vars

FlowGoals == {"register", "search", "filter", "edit"}

\* the last step opened a flow by goal selection
EnteredFlow ==
    /\ last.routine \in {"goal_selection", "router"}
    /\ last.outcome \in FlowGoals

\* the step selected a goal that opens a flow: a menu click, or a match of the router
SelectsFlow ==
    /\ last'.routine \in {"goal_selection", "router"}
    /\ last'.outcome # "no_goal_warning"
    /\ UdGet(user_data', "goal", "none") \in FlowGoals

\* C39: every entry into registering, searching, filtering or the edit flow by goal
\* selection, from whatever state, leaves the session in the state of that flow with
\* empty accumulated fields and an empty history; and the first registering or searching
\* utterance after it accumulates exactly what that utterance yielded
C39_FlowStartsEmpty ==
    [][/\ SelectsFlow =>
            /\ PartialData(user_data') = EmptyDict
            /\ user_data'["conversation_history"] = <<>>
            /\ CurrentState(user_data') \in
                  {STATE_REGISTER, STATE_SEARCH, STATE_FILTER, STATE_EDIT_FILTER, STATE_EDIT}
       /\ (EnteredFlow /\ last'.routine \in {"register", "search"}
           /\ last'.outcome # "not_understood") =>
            PartialData(user_data') = last'.data]_vars

\* a flow entered by goal selection while the selection of an earlier edit is still held
C39_Witness ==
    /\ last.routine \in {"goal_selection", "router"}
    /\ last.outcome \in FlowGoals
    /\ PartialData(user_data) = EmptyDict
    /\ EditingId(user_data) # 0

FinalizeOutcomes == {"saved", "save_failed", "failed_after_save"}

\* C40: in confirming, a reply that holds an affirmative word is handled as affirmative,
\* whether or not it holds a negative word too: the registration is finalized, and the
\* listing persisted when the store accepts it; a reply is cancelled only when it holds
\* a negative and no affirmative word, and is given to the extraction only when it holds
\* neither.
C40_AffirmativeFirst ==
    [][(InState(STATE_CONFIRM) /\ last'.routine = "confirm")
       => \A text \in Confirming.texts, reply \in Confirming.property_replies,
             db_ok \in BOOLEAN, read_ok \in BOOLEAN :
            Turn(text, reply, db_ok, read_ok)
            => /\ Affirmative(text) =>
                    /\ last'.outcome \in FinalizeOutcomes
                    /\ db_ok => Persisted(PartialData(user_data))
               /\ last'.outcome = "cancelled" => (Negative(text) /\ ~Affirmative(text))
               /\ last'.outcome \in {"merged", "not_understood"} =>
                    (~Affirmative(text) /\ ~Negative(text))]_vars

\* a listing was persisted by a reply, and every affirmative reply there is holds a
\* negative word too
C40_Witness ==
    /\ last.routine = "confirm" /\ last.outcome = "saved"
    /\ OwnedByMe(last.id)
    /\ \E text \in Confirming.texts : Affirmative(text)
    /\ \A text \in Confirming.texts : Affirmative(text) => Negative(text)

====
